---- MODULE Spec2Model ----
(***************************************************************************)
(* MatrixOS application scheduler (matrixos/app_framework.py): the         *)
(* registry, the active application, the attention queue, the per-frame    *)
(* main loop of OSContext.run, and the task bridge it drains each frame.   *)
(*                                                                         *)
(* The main loop is one sequential process; pc names the step of the frame *)
(* the main thread is in, and the step's action is that step running to    *)
(* completion.  Task workers are the only other threads; their actions     *)
(* interleave with every step of the frame.                                *)
(***************************************************************************)
EXTENDS Integers, Sequences, FiniteSets, TLC

\* ------------------------------------------------------------------ bounds
NumApps == 3      \* application objects that exist (identities 1..NumApps)
MaxQueue == 2     \* requests are made while fewer than this many are pending
MaxTasks == 2     \* tasks that are ever submitted
TaskApps == 1     \* applications registered where tasks are studied
HelpApps == 2     \* registrations where the help overlay is studied
RouteApps == 3    \* registrations where the routing of keys is studied
TickApps == 2     \* registrations where the tick cadence is studied
DrawApps == 2     \* applications where the hooks of a frame are studied
StrayApps == 2    \* registrations where an application stays unregistered
DrainApps == 2    \* applications where the draining of the queue is studied
OrderApps == 2    \* applications where the order of a frame's steps is studied
RankApps == 2     \* applications where the rank of a request is studied
ReenterApps == 2  \* applications where a second run() is studied
MaxText == 2      \* characters the on-screen keyboard's text is followed for
MaxTime == 3      \* seconds the wall clock is followed for

None == 0
AppIds == 1..NumApps
TaskIds == 1..MaxTasks

\* ------------------------------------------------------------------- state
VARIABLES
    apps,             \* OSContext.apps: registered applications, in order
    launcher,         \* OSContext.launcher (None or an application)
    active_app,       \* OSContext.active_app (None or an application)
    active,           \* App.active of every application
    dirty,            \* App.dirty of every application
    needs_keyboard,   \* App.needs_keyboard of every application
    attention_queue,  \* OSContext.attention_queue
    showing_help,     \* OSContext.showing_help
    help_scroll,      \* OSContext.help_scroll
    running,          \* OSContext.running
    pc,               \* the step of run() the main thread is in ("idle": not in run)
    tickIdx,          \* position of the background-tick loop in apps (0: not in the loop)
    frameSwitches,    \* history: Switches performed so far in the current frame
    framePopped,      \* history: the requests popped so far in the current frame
    taskState,        \* per task: "new", "running", "completed", "delivered"
    taskOwner,        \* per task: the application that submitted it (None before)
    taskRaised,       \* per task: did its work raise
    completed,        \* the completed-task queue (results, oldest first)
    cbCount,          \* history: per task, number of callback invocations
    cbResult,         \* history: per task, the result its callback received
    cbStep,           \* history: per task, the step the main loop was in when the callback ran
    cbThread,         \* history: per task, the thread that ran the callback
    completionLog,    \* history: tasks in the order their work finished
    deliveryLog,      \* history: tasks in the order their callbacks ran
    frameDue,         \* history: tasks whose result was queued when the frame began
    polled,           \* history: the event polled in this frame and what it met
    ticked,           \* history: the on_background_tick calls of this frame's round
    clock,            \* time.time(), in seconds
    current_time,     \* run(): current_time, the clock read when the frame began
    last_background_tick,  \* run(): last_background_tick
    calls,            \* history: the hooks and surface calls of this frame, in order
    stray,            \* history: the last request_attention of an unregistered application
    quiet,            \* history: have requests stopped arriving, and the frames since
    reentered,        \* history: has run() been entered again after it returned
    tickReq,          \* history: the request_attention call of the last background tick
    lastHook,         \* history: the last of on_activate / on_deactivate called on each application
    keyboard,         \* the OnScreenKeyboard of show_keyboard (NoKeyboard: none was made)
    manager           \* the task manager: "new", "started" (run, line 259), "stopped" (385)

vars == <<apps, launcher, active_app, active, dirty, needs_keyboard, attention_queue,
          showing_help, help_scroll, running, pc, tickIdx, frameSwitches, framePopped,
          taskState, taskOwner, taskRaised, completed, cbCount, cbResult, cbStep,
          cbThread, completionLog, deliveryLog, frameDue, polled, ticked, clock,
          current_time, last_background_tick, calls, stray, quiet, lastHook, tickReq,
          reentered, manager, keyboard>>

osVars == <<apps, launcher, active_app, active, dirty, needs_keyboard, attention_queue,
            showing_help, help_scroll, running>>
taskVars == <<taskState, taskOwner, taskRaised, completed, cbCount, cbResult, cbStep,
              cbThread, completionLog, deliveryLog>>
frameLog == <<polled, ticked>>
timeVars == <<clock, current_time, last_background_tick>>
ghostVars == <<stray, quiet, lastHook, tickReq, reentered>>

Range(s) == {s[i] : i \in 1..Len(s)}
Registered(a) == a \in Range(apps)

\* --------------------------------------------------------- attention queue
\* A priority that is not one of the three names ranks lowest.
PriorityValueUnknownLow(p) ==
    CASE p = "low" -> 0
      [] p = "normal" -> 1
      [] p = "high" -> 2
      [] OTHER -> 0

\* {'low': 0, 'normal': 1, 'high': 2}.get(priority, 1)
PriorityValue(p) ==
    CASE p = "low" -> 0
      [] p = "normal" -> 1
      [] p = "high" -> 2
      [] OTHER -> 1

\* An unstable insertion: e goes in front of the entries of its own priority.
InsertBeforeEqual(s, e) ==
    LET ahead == {i \in 1..Len(s) : s[i].priority > e.priority}
        k == IF ahead = {} THEN 0 ELSE CHOOSE i \in ahead : \A j \in ahead : j <= i
    IN SubSeq(s, 1, k) \o <<e>> \o SubSeq(s, k + 1, Len(s))

\* One insertion of a stable sort by descending priority: e goes behind every
\* entry whose priority is not lower than its own.
InsertByPriority(s, e) ==
    LET ahead == {i \in 1..Len(s) : s[i].priority >= e.priority}
        k == IF ahead = {} THEN 0 ELSE CHOOSE i \in ahead : \A j \in ahead : j <= i
    IN SubSeq(s, 1, k) \o <<e>> \o SubSeq(s, k + 1, Len(s))

RECURSIVE SortByPriority(_)
\* list.sort(key=lambda x: x[0], reverse=True): stable, highest priority first.
SortByPriority(q) ==
    IF q = <<>> THEN <<>>
    ELSE InsertByPriority(SortByPriority(SubSeq(q, 1, Len(q) - 1)), q[Len(q)])

\* The request appended and the queue left unsorted.
RequestAppSwitchNoSort(q, app, p) ==
    Append(q, [priority |-> PriorityValue(p), app |-> app, stamp |-> Len(q) + 1])

\* request_app_switch(app, priority): append, then sort.  stamp is history: the
\* rank of the request's arrival among the pending ones (not part of the tuple).
RequestAppSwitch(q, app, p) ==
    SortByPriority(Append(q, [priority |-> PriorityValue(p), app |-> app,
                              stamp |-> Len(q) + 1]))

\* The queue emptied once its head is served.
PopAll(q) == <<>>

\* The tuple (priority_value, app) of a queue entry.
Request(e) == [priority |-> e.priority, app |-> e.app]

\* attention_queue.pop(0): the rest of the queue (stamps renumbered 1..n-1).
PopHead(q) ==
    [i \in 1..(Len(q) - 1) |->
        [q[i + 1] EXCEPT !.stamp = IF @ > q[1].stamp THEN @ - 1 ELSE @]]

\* The request is queued whether or not the application is registered.
RequestAttentionUnguarded(q, app, p) == RequestAppSwitch(q, app, p)

\* App.request_attention(priority): a no-op unless app.os is set (registered).
RequestAttention(q, app, p) ==
    IF Registered(app) THEN RequestAppSwitch(q, app, p) ELSE q

\* ------------------------------------------------------------- switching
\* The scheduler state a Switch reads and writes.
SchedState == [active_app |-> active_app, active |-> active, dirty |-> dirty,
               switches |-> frameSwitches]

\* A Switch that does not return early when app is already active.
SwitchToAppNoGuard(st, app, actDirty) ==
    LET off == IF st.active_app # None
               THEN [st.active EXCEPT ![st.active_app] = FALSE]
               ELSE st.active
    IN [active_app |-> app,
        active |-> [off EXCEPT ![app] = TRUE],
        dirty |-> IF actDirty THEN [st.dirty EXCEPT ![app] = TRUE] ELSE st.dirty,
        switches |-> st.switches + 1]

\* A Switch that leaves the active flag of the application it deactivates set.
SwitchToAppKeepsFlag(st, app, actDirty) ==
    IF st.active_app = app THEN st
    ELSE [active_app |-> app,
          active |-> [st.active EXCEPT ![app] = TRUE],
          dirty |-> IF actDirty THEN [st.dirty EXCEPT ![app] = TRUE] ELSE st.dirty,
          switches |-> st.switches + 1]

\* switch_to_app(app); actDirty: does app's on_activate set its dirty flag
\* (App.on_activate does, overrides need not).
SwitchToApp(st, app, actDirty) ==
    IF st.active_app = app THEN st
    ELSE LET off == IF st.active_app # None
                    THEN [st.active EXCEPT ![st.active_app] = FALSE]
                    ELSE st.active
         IN [active_app |-> app,
             active |-> [off EXCEPT ![app] = TRUE],
             dirty |-> IF actDirty THEN [st.dirty EXCEPT ![app] = TRUE] ELSE st.dirty,
             switches |-> st.switches + 1]

\* One entry of the frame's call log: hook was called on app (None for a call
\* on the matrix) by the step the loop is at, while the overlay flag was help,
\* app's dirty flag was d[app] and the attention queue held pending requests.
Call(hook, app, help, d) ==
    [hook |-> hook, app |-> app, help |-> help, dirty |-> app # None /\ d[app],
     step |-> pc, pending |-> Len(attention_queue)]

\* The new application is activated before the old one is deactivated.
SwitchCallsActivateFirst(st, app, help) ==
    IF st.active_app = app THEN <<>>
    ELSE <<Call("on_activate", app, help, st.dirty)>>
         \o (IF st.active_app # None
             THEN <<Call("on_deactivate", st.active_app, help, st.dirty)>>
             ELSE <<>>)
         \o <<Call("clear", None, help, st.dirty)>>

\* switch_to_app that does not tell the old application it was deactivated.
SwitchCallsNoDeactivate(st, app, help) ==
    IF st.active_app = app THEN <<>>
    ELSE <<Call("on_activate", app, help, st.dirty)>>
         \o <<Call("clear", None, help, st.dirty)>>

\* switch_to_app without its early return: the active application is
\* deactivated and activated again and the screen cleared.
SwitchCallsNoGuard(st, app, help) ==
    (IF st.active_app # None
     THEN <<Call("on_deactivate", st.active_app, help, st.dirty)>>
     ELSE <<>>)
    \o <<Call("on_activate", app, help, st.dirty)>>
    \o <<Call("clear", None, help, st.dirty)>>

\* The calls switch_to_app(app) makes, in order (lines 155-169).
SwitchCalls(st, app, help) ==
    IF st.active_app = app THEN <<>>
    ELSE (IF st.active_app # None
          THEN <<Call("on_deactivate", st.active_app, help, st.dirty)>>
          ELSE <<>>)
         \o <<Call("on_activate", app, help, st.dirty)>>
         \o <<Call("clear", None, help, st.dirty)>>

\* lastHook after the calls cs: the last on_activate or on_deactivate of
\* every application they name.
RECURSIVE HooksAfter(_, _)
HooksAfter(h, cs) ==
    IF cs = <<>> THEN h
    ELSE HooksAfter(IF cs[1].hook \in {"on_activate", "on_deactivate"}
                    THEN [h EXCEPT ![cs[1].app] = cs[1].hook]
                    ELSE h,
                    Tail(cs))

\* lastHook after the calls cs, where the environment keeps it.
LogHooks(env, cs) == IF env.hookLog THEN HooksAfter(lastHook, cs) ELSE lastHook

\* The call log after the calls cs, where the environment keeps one.
Log(env, cs) == IF env.callLog THEN calls \o cs ELSE calls

\* ------------------------------------------------------ on-screen keyboard
\* KeyboardLayout (keyboard.py, lines 26-47).  The four special keys are
\* written SHIFT (the up arrow), BKSP (the left arrow), DONE (the tick) and
\* "_" (numbers and symbols).
QWERTY_LOWER ==
    << <<"q", "w", "e", "r", "t", "y", "u", "i", "o", "p">>,
       <<"a", "s", "d", "f", "g", "h", "j", "k", "l">>,
       <<"SHIFT", "z", "x", "c", "v", "b", "n", "m", "BKSP">>,
       <<"_", " ", ",", ".", "DONE">> >>

QWERTY_UPPER ==
    << <<"Q", "W", "E", "R", "T", "Y", "U", "I", "O", "P">>,
       <<"A", "S", "D", "F", "G", "H", "J", "K", "L">>,
       <<"SHIFT", "Z", "X", "C", "V", "B", "N", "M", "BKSP">>,
       <<"_", " ", ",", ".", "DONE">> >>

NUMBERS ==
    << <<"1", "2", "3", "4", "5", "6", "7", "8", "9", "0">>,
       <<"!", "@", "#", "$", "%", "^", "&", "*", "(", ")">>,
       <<"SHIFT", "-", "=", "[", "]", "{", "}", "/", "BKSP">>,
       <<"_", " ", ",", ".", "DONE">> >>

\* KeyboardLayout.get_layout(mode)
get_layout(mode) ==
    CASE mode = "lower" -> QWERTY_LOWER
      [] mode = "upper" -> QWERTY_UPPER
      [] mode = "numbers" -> NUMBERS
      [] OTHER -> QWERTY_LOWER

\* No OnScreenKeyboard has been made yet.
NoKeyboard ==
    [mode |-> "none", selected_row |-> 0, selected_col |-> 0, cursor_pos |-> 0,
     text |-> 0, done |-> FALSE, cancelled |-> FALSE, last |-> "none"]

\* OnScreenKeyboard(prompt, initial) (lines 65-84).  text is len(self.text):
\* the characters typed do not bear on the selection.  last is history: the
\* key of the last event handle_input was given.
NewKeyboard(initial) ==
    [mode |-> "lower", selected_row |-> 0, selected_col |-> 0, cursor_pos |-> initial,
     text |-> initial, done |-> FALSE, cancelled |-> FALSE, last |-> "none"]

\* self.layout[row] of keyboard k, rows counted from 0 as in the source
Row(k, row) == get_layout(k.mode)[row + 1]

\* UP and DOWN without the adjustment of the column to a shorter row.
MoveRowUnadjusted(k, step) ==
    [k EXCEPT !.selected_row = (k.selected_row + step) % Len(get_layout(k.mode))]

\* UP (step -1) and DOWN (step 1) of handle_input (lines 96-108)
MoveRow(k, step) ==
    LET row == (k.selected_row + step) % Len(get_layout(k.mode))
    IN [k EXCEPT !.selected_row = row,
                 !.selected_col = IF k.selected_col >= Len(Row(k, row))
                                  THEN Len(Row(k, row)) - 1
                                  ELSE k.selected_col]

\* LEFT (step -1) and RIGHT (step 1) of handle_input (lines 110-118)
MoveCol(k, step) ==
    [k EXCEPT !.selected_col = (k.selected_col + step) % Len(Row(k, k.selected_row))]

\* _type_key(key) (lines 133-179); a regular character is typed while the
\* text is followed (fewer than MaxText characters).
TypeKey(k, key) ==
    CASE key = "DONE" -> [k EXCEPT !.done = TRUE]
      [] key = "BKSP" ->
            IF k.cursor_pos > 0
            THEN [k EXCEPT !.text = @ - 1, !.cursor_pos = @ - 1]
            ELSE k
      [] key = "SHIFT" ->
            [k EXCEPT !.mode = CASE k.mode = "lower" -> "upper"
                                 [] k.mode = "upper" -> "lower"
                                 [] k.mode = "numbers" -> "lower"
                                 [] OTHER -> k.mode]
      [] key = "_" ->
            [k EXCEPT !.mode = IF k.mode = "numbers" THEN "lower" ELSE "numbers"]
      [] OTHER -> [k EXCEPT !.text = @ + 1, !.cursor_pos = @ + 1]

KeyboardKeys == {"UP", "DOWN", "LEFT", "RIGHT", "OK", "BACK", "HOME"}

\* handle_input(event) (lines 86-131)
HandleInput(k, key) ==
    LET after ==
          CASE key = "UP" -> MoveRow(k, -1)
            [] key = "DOWN" -> MoveRow(k, 1)
            [] key = "LEFT" -> MoveCol(k, -1)
            [] key = "RIGHT" -> MoveCol(k, 1)
            [] key = "OK" -> TypeKey(k, Row(k, k.selected_row)[k.selected_col + 1])
            [] key = "BACK" -> [k EXCEPT !.cancelled = TRUE, !.done = TRUE]
            [] OTHER -> k
    IN [after EXCEPT !.last = key]

\* Is OK on a regular character while the text is no longer followed?
TextFull(k, key) ==
    /\ key = "OK"
    /\ Row(k, k.selected_row)[k.selected_col + 1] \notin {"DONE", "BKSP", "SHIFT", "_"}
    /\ k.text >= MaxText

\* -------------------------------------------------------------------- init
\* No unregistered application has called request_attention.
NoStray == [app |-> None, priority |-> "none"]

\* Requests may arrive.
NotQuiet == [on |-> FALSE, pending |-> 0, frames |-> 0]

\* No event was polled (get_key returned None).
NoPoll == [key |-> "NONE", help |-> FALSE, scroll |-> 0, active |-> None,
           eventTo |-> None, handled |-> FALSE]

Init ==
    /\ apps = <<>>
    /\ launcher = None
    /\ active_app = None
    /\ active = [a \in AppIds |-> FALSE]
    /\ dirty = [a \in AppIds |-> TRUE]
    /\ needs_keyboard = [a \in AppIds |-> FALSE]
    /\ attention_queue = <<>>
    /\ showing_help = FALSE
    /\ help_scroll = 0
    /\ running = TRUE
    /\ pc = "idle"
    /\ tickIdx = 0
    /\ frameSwitches = 0
    /\ framePopped = <<>>
    /\ taskState = [t \in TaskIds |-> "new"]
    /\ taskOwner = [t \in TaskIds |-> None]
    /\ taskRaised = [t \in TaskIds |-> FALSE]
    /\ completed = <<>>
    /\ cbCount = [t \in TaskIds |-> 0]
    /\ cbResult = [t \in TaskIds |-> [success |-> TRUE, result |-> None, error |-> None]]
    /\ cbStep = [t \in TaskIds |-> "none"]
    /\ cbThread = [t \in TaskIds |-> "none"]
    /\ completionLog = <<>>
    /\ deliveryLog = <<>>
    /\ frameDue = {}
    /\ polled = NoPoll
    /\ ticked = <<>>
    /\ clock = 0
    /\ current_time = 0
    /\ last_background_tick = 0
    /\ calls = <<>>
    /\ stray = NoStray
    /\ quiet = NotQuiet
    /\ lastHook = [a \in AppIds |-> "none"]
    /\ tickReq = NoStray
    /\ reentered = FALSE
    /\ manager = "new"
    /\ keyboard = NoKeyboard

\* ------------------------------------------------------------ environment
\* What the hosted applications and the operator do is input.  A hook's effect
\* fx is [req, submit]: the priority it passes to request_attention ("none":
\* no call) and whether it calls schedule_task.  An environment env names the
\* sets these inputs are drawn from.
NoFx == [req |-> "none", submit |-> FALSE]

FreshTask == CHOOSE t \in TaskIds : taskState[t] = "new" /\ \A u \in TaskIds :
                                        taskState[u] = "new" => t <= u

\* The bounds on what a hook may still do.
FxOk(fx, q) ==
    /\ fx.req # "none" => Len(q) < MaxQueue /\ ~quiet.on
    /\ fx.submit => \E t \in TaskIds : taskState[t] = "new"

\* Where the environment has one fetching application, the one registered
\* first, its hooks submit no task while one is in flight (fetch_weather
\* returns at once while self.loading) and no other application submits one.
FetchOk(env, app, fx) ==
    (env.serial /\ fx.submit) =>
        /\ app = apps[1]
        /\ \A t \in TaskIds : taskState[t] \notin {"running", "completed"}

\* The attention queue after a hook of app with effect fx has run.
FxQueue(q, app, fx) ==
    IF fx.req = "none" THEN q ELSE RequestAttention(q, app, fx.req)

\* schedule_task(work, callback, app.name): the task starts running on a worker.
ScheduleTask(app) ==
    /\ taskState' = [taskState EXCEPT ![FreshTask] = "running"]
    /\ taskOwner' = [taskOwner EXCEPT ![FreshTask] = app]

FxTasks(app, fx) ==
    IF fx.submit THEN ScheduleTask(app) ELSE UNCHANGED <<taskState, taskOwner>>

\* ------------------------------------------- show_keyboard (keyboard.py)
AllButKeyboard ==
    <<osVars, pc, tickIdx, frameSwitches, framePopped, frameDue, taskVars, frameLog,
      timeVars, calls, ghostVars, manager>>

\* show_keyboard(matrix, input_handler, prompt, initial) makes its keyboard
\* (lines 283-300).
ShowKeyboard ==
    \E initial \in 0..MaxText :
        /\ keyboard = NoKeyboard \/ keyboard.done
        /\ keyboard' = NewKeyboard(initial)
        /\ UNCHANGED AllButKeyboard

\* One event of show_keyboard's loop, which ends when the keyboard is done
\* (lines 302-315).
KeyboardEvent ==
    \E key \in KeyboardKeys :
        /\ keyboard # NoKeyboard
        /\ ~keyboard.done
        /\ ~TextFull(keyboard, key)
        /\ keyboard' = HandleInput(keyboard, key)
        /\ UNCHANGED AllButKeyboard

NextKeyboard == ShowKeyboard \/ KeyboardEvent

SpecKeyboard == Init /\ [][NextKeyboard]_vars

\* -------------------------------------------------- outside run(): set-up
\* Application identities are interchangeable, so a not yet registered
\* application is registered under the lowest unused identity.
NextUnregistered(a) ==
    /\ ~Registered(a)
    /\ \A b \in AppIds : ~Registered(b) => a <= b

AllButAppsLauncher ==
    <<active_app, active, dirty, needs_keyboard, attention_queue, showing_help,
      help_scroll, running, pc, tickIdx, frameSwitches, framePopped, frameDue>>

\* register_app(app)
RegisterApp(env) ==
    \E a \in AppIds :
        /\ pc = "idle"
        /\ Len(apps) < env.maxApps
        /\ NextUnregistered(a) \/ (env.dupApps /\ Registered(a))
        /\ apps' = Append(apps, a)
        /\ UNCHANGED <<launcher, AllButAppsLauncher, taskVars, frameLog, timeVars, calls, ghostVars, manager, keyboard>>

\* set_launcher(launcher)
SetLauncher(env) ==
    \E a \in AppIds :
        /\ pc = "idle"
        /\ env.launchers
        /\ Len(apps) < env.maxApps
        /\ NextUnregistered(a) \/ (env.dupApps /\ Registered(a))
        /\ launcher' = a
        /\ apps' = Append(apps, a)
        /\ UNCHANGED <<AllButAppsLauncher, taskVars, frameLog, timeVars, calls, ghostVars, manager, keyboard>>

\* The loop is left with the task manager running.
StopTaskManagerForgotten(m) == m

\* async_tasks.get_task_manager().stop() (run, line 385)
StopTaskManager(m) == "stopped"

\* on_update is called after the render block.
StepAfterRenderFirst(step) ==
    CASE step = "drain" -> "input"
      [] step = "input" -> "attention"
      [] step = "attention" -> "keyboard"
      [] step = "keyboard" -> "render"
      [] step = "render" -> "update"
      [] step = "update" -> "tick"

\* The statement of the loop body that follows a step (run, lines 271-376)
StepAfter(step) ==
    CASE step = "drain" -> "input"
      [] step = "input" -> "attention"
      [] step = "attention" -> "keyboard"
      [] step = "keyboard" -> "update"
      [] step = "update" -> "render"
      [] step = "render" -> "tick"

\* switch_to_app(app) called by an application's entry point before run();
\* outside the loop the call log holds the calls of the last such switch.
SwitchToAppCall(env) ==
    \E a \in AppIds, d \in env.activateDirty :
        /\ pc = "idle"
        /\ Registered(a)
        /\ LET st == SwitchToApp(SchedState, a, d)
           IN /\ active_app' = st.active_app
              /\ active' = st.active
              /\ dirty' = st.dirty
        /\ calls' = IF env.callLog THEN SwitchCalls(SchedState, a, showing_help) ELSE calls
        /\ lastHook' = LogHooks(env, SwitchCalls(SchedState, a, showing_help))
        /\ UNCHANGED <<apps, launcher, needs_keyboard, attention_queue, showing_help,
                       help_scroll, running, pc, tickIdx, frameSwitches, framePopped,
                       frameDue, taskVars, frameLog, timeVars, stray, quiet,
                       tickReq, reentered, manager, keyboard>>

\* The tasks whose result is in the completed-task queue.
QueuedTasks == {completed[i].task : i \in 1..Len(completed)}

\* A loop body that does not call process_completed_tasks().
BeginFrameNoDrain ==
    /\ pc' = "input"
    /\ tickIdx' = 0
    /\ frameSwitches' = 0
    /\ framePopped' = <<>>
    /\ frameDue' = QueuedTasks
    /\ polled' = NoPoll
    /\ ticked' = <<>>
    /\ calls' = <<>>
    /\ current_time' = clock

\* A new iteration of `while self.running` begins: the clock is read.
BeginFrame ==
    /\ pc' = "drain"
    /\ tickIdx' = 0
    /\ frameSwitches' = 0
    /\ framePopped' = <<>>
    /\ frameDue' = QueuedTasks
    /\ polled' = NoPoll
    /\ ticked' = <<>>
    /\ calls' = <<>>
    /\ current_time' = clock

\* run(): running = True, the task manager is started, the first frame begins.
\* run() without the reset of the running flag (line 256).
EnterKeepsFlag(log) ==
    /\ pc = "idle"
    /\ running' = running
    /\ manager' = "started"
    /\ last_background_tick' = clock
    /\ BeginFrame
    /\ reentered' = IF log THEN (reentered \/ manager = "stopped") ELSE reentered
    /\ UNCHANGED <<apps, launcher, active_app, active, dirty, needs_keyboard,
                   attention_queue, showing_help, help_scroll, taskVars, clock,
                   stray, quiet, lastHook, tickReq, keyboard>>

\* run() up to its loop (lines 249-265); log: is a second entry remembered.
Enter(log) ==
    /\ pc = "idle"
    /\ running' = TRUE
    /\ manager' = "started"
    /\ last_background_tick' = clock
    /\ BeginFrame
    /\ reentered' = IF log THEN (reentered \/ manager = "stopped") ELSE reentered
    /\ UNCHANGED <<apps, launcher, active_app, active, dirty, needs_keyboard,
                   attention_queue, showing_help, help_scroll, taskVars, clock,
                   stray, quiet, lastHook, tickReq, keyboard>>

Run == Enter(FALSE)

\* run() called by an entry point that may have called it before
\* (launcher.py starts every application it launches on one OSContext).
RunAgain == Enter(TRUE)

\* ---------------------------------------------------------- the frame loop
\* process_completed_tasks() has found the completed-task queue empty.
DrainDone ==
    /\ pc = "drain"
    /\ completed = <<>>
    /\ pc' = StepAfter("drain")
    /\ UNCHANGED <<osVars, tickIdx, frameSwitches, framePopped, frameDue, taskVars,
                   frameLog, timeVars, calls, ghostVars, manager, keyboard>>

MatrixHeight == 64
\* len(app.get_help_text()): App returns none, TimerApp one or two, WeatherApp two.
AppHelpCount(a) == (a - 1) % 3
\* visible_lines (run, line 297; render_help_overlay, line 218)
VisibleLines == (MatrixHeight - 14 - 16) \div 8
\* max_scroll of the DOWN key (run, lines 295-298)
MaxScroll(a) ==
    LET app_help_count == IF a # None THEN AppHelpCount(a) ELSE 0
        total_items == app_help_count + 6
        visible_lines == VisibleLines
    IN IF total_items - visible_lines > 0 THEN total_items - visible_lines ELSE 0

\* len(help_items) of render_help_overlay: the "APP KEYS:" header and the
\* application's entries if it has any, then the six universal lines.
HelpItemCount(a) ==
    LET app_help == IF a # None THEN AppHelpCount(a) ELSE 0
    IN (IF app_help > 0 THEN 1 + app_help ELSE 0) + 6

MarkDirty(d, a) == IF a # None THEN [d EXCEPT ![a] = TRUE] ELSE d

\* The input step of the frame (run, lines 275-335) works on a record r of
\* every field it writes; exit is the `continue` taken with running cleared,
\* eventTo is the application whose on_event was called (None: no call) and
\* handled is what that call returned.
RouteBase ==
    [st |-> SchedState, running |-> running, help |-> showing_help,
     scroll |-> help_scroll, keyboard |-> needs_keyboard, queue |-> attention_queue,
     exit |-> FALSE, eventTo |-> None, handled |-> FALSE, fx |-> NoFx, calls |-> <<>>]

\* if self.active_app: self.active_app.dirty = True
WithDirty(r) == [r EXCEPT !.st.dirty = MarkDirty(@, r.st.active_app)]

\* running is cleared but the rest of the frame is not skipped.
QuitNoContinue(r) == [r EXCEPT !.running = FALSE]

\* self.running = False; continue
Quit(r) == [r EXCEPT !.running = FALSE, !.exit = TRUE]

\* The overlay toggled and the scroll offset left as it is.
ToggleHelpKeepsScroll(r) == WithDirty([r EXCEPT !.help = ~r.help])

\* HELP (run, lines 280-286)
ToggleHelp(r) ==
    WithDirty([r EXCEPT !.help = ~r.help, !.scroll = IF r.help THEN 0 ELSE @])

\* max(0, self.help_scroll - 1)
ScrollUp(scroll) == IF scroll - 1 > 0 THEN scroll - 1 ELSE 0

\* A DOWN that goes back to the first line from the last position.
ScrollDownWraps(scroll, a) == IF scroll + 1 > MaxScroll(a) THEN 0 ELSE scroll + 1

\* min(max_scroll, self.help_scroll + 1)
ScrollDown(scroll, a) == IF MaxScroll(a) < scroll + 1 THEN MaxScroll(a) ELSE scroll + 1

\* BACK closes the overlay and leaves the scroll offset as it is.
OverlayKeyBackKeepsScroll(r, k) ==
    IF k = "UP" THEN WithDirty([r EXCEPT !.scroll = ScrollUp(@)])
    ELSE IF k = "DOWN" THEN WithDirty([r EXCEPT !.scroll = ScrollDown(@, r.st.active_app)])
    ELSE IF k = "BACK" THEN WithDirty([r EXCEPT !.help = FALSE])
    ELSE r

\* Any key other than UP and DOWN closes the overlay.
OverlayKeyAnyCloses(r, k) ==
    IF k = "UP" THEN WithDirty([r EXCEPT !.scroll = ScrollUp(@)])
    ELSE IF k = "DOWN" THEN WithDirty([r EXCEPT !.scroll = ScrollDown(@, r.st.active_app)])
    ELSE WithDirty([r EXCEPT !.help = FALSE, !.scroll = 0])

\* A key other than QUIT and HELP while the overlay is showing (run, lines 287-307)
OverlayKey(r, k) ==
    IF k = "UP" THEN WithDirty([r EXCEPT !.scroll = ScrollUp(@)])
    ELSE IF k = "DOWN" THEN WithDirty([r EXCEPT !.scroll = ScrollDown(@, r.st.active_app)])
    ELSE IF k = "BACK" THEN WithDirty([r EXCEPT !.help = FALSE, !.scroll = 0])
    ELSE r

\* switch to the launcher, or leave the loop if there is none (run, lines
\* 311-316 and 330-335)
ToLauncher(r, actDirty) ==
    IF launcher # None
    THEN [r EXCEPT !.st = SwitchToApp(@, launcher, actDirty),
                   !.calls = @ \o SwitchCalls(r.st, launcher, r.help)]
    ELSE Quit(r)

\* HOME is checked first (run, lines 309-316)
HomeKey(r, k, actDirty) == IF k = "HOME" THEN ToLauncher(r, actDirty) ELSE r

\* Give event to active app (run, lines 318-326); ev is what its on_event
\* does: [handled, keyboard, dirty, fx].
GiveEvent(r, ev) ==
    LET a == r.st.active_app
    IN IF a = None THEN r
       ELSE [r EXCEPT !.eventTo = a,
                      !.handled = ev.handled,
                      !.fx = ev.fx,
                      !.calls = Append(@, Call("on_event", a, r.help, r.st.dirty)),
                      !.queue = FxQueue(@, a, ev.fx),
                      !.keyboard = IF ev.keyboard THEN [@ EXCEPT ![a] = TRUE] ELSE @,
                      !.st.dirty = IF ev.dirty THEN [@ EXCEPT ![a] = TRUE] ELSE @]

\* A BACK the application did not handle has no effect.
BubbleDropped(r, k, actDirty) == r

\* If app didn't handle BACK, let it bubble up (run, lines 328-335)
Bubble(r, k, actDirty) ==
    IF ~r.handled /\ k = "BACK" THEN ToLauncher(r, actDirty) ELSE r

\* The application sees every key first and HOME acts only if it declines.
NormalKeyAppFirst(r, k, ev, actDirty) ==
    LET given == GiveEvent(r, ev)
    IN IF given.handled THEN given
       ELSE LET home == HomeKey(given, k, actDirty)
            IN IF home.exit THEN home ELSE Bubble(home, k, actDirty)

\* A key other than QUIT and HELP in normal mode (run, lines 308-335)
NormalKey(r, k, ev, actDirty) ==
    LET home == HomeKey(r, k, actDirty)
    IN IF home.exit THEN home ELSE Bubble(GiveEvent(home, ev), k, actDirty)

\* The overlay handles its keys and the application is given them as well.
RouteEventThroughOverlay(k, ev, actDirty) ==
    IF k = "NONE" THEN RouteBase
    ELSE IF k = "QUIT" THEN Quit(RouteBase)
    ELSE IF k = "HELP" THEN ToggleHelp(RouteBase)
    ELSE IF showing_help THEN GiveEvent(OverlayKey(RouteBase, k), ev)
    ELSE NormalKey(RouteBase, k, ev, actDirty)

\* The routing of the polled key k (run, lines 276-335)
RouteEvent(k, ev, actDirty) ==
    IF k = "NONE" THEN RouteBase
    ELSE IF k = "QUIT" THEN Quit(RouteBase)
    ELSE IF k = "HELP" THEN ToggleHelp(RouteBase)
    ELSE IF showing_help THEN OverlayKey(RouteBase, k)
    ELSE NormalKey(RouteBase, k, ev, actDirty)

\* What the frame remembers of its poll: the key, the mode, scroll offset and
\* active application it met, and the on_event call it led to.  It is kept
\* where env.pollLog is set: where the routing of keys is studied.
PollRecord(k, r) ==
    IF k = "NONE" THEN NoPoll
    ELSE [key |-> k, help |-> showing_help, scroll |-> help_scroll,
          active |-> active_app, eventTo |-> r.eventTo, handled |-> r.handled]

InputStep(env) ==
    \E k \in env.keys, ev \in env.eventFx, d \in env.activateDirty :
        /\ pc = "input"
        /\ LET r == RouteEvent(k, ev, d)
           IN /\ r.eventTo # None => FxOk(ev.fx, attention_queue) /\ FetchOk(env, r.eventTo, ev.fx)
              /\ r.eventTo = None => ev = CHOOSE e \in env.eventFx : TRUE
              /\ active_app' = r.st.active_app
              /\ active' = r.st.active
              /\ dirty' = r.st.dirty
              /\ frameSwitches' = r.st.switches
              /\ running' = r.running
              /\ showing_help' = r.help
              /\ help_scroll' = r.scroll
              /\ needs_keyboard' = r.keyboard
              /\ attention_queue' = r.queue
              /\ polled' = IF env.pollLog THEN PollRecord(k, r) ELSE NoPoll
              /\ calls' = Log(env, r.calls)
              /\ lastHook' = LogHooks(env, r.calls)
              /\ IF r.eventTo # None THEN FxTasks(r.eventTo, ev.fx)
                 ELSE UNCHANGED <<taskState, taskOwner>>
              /\ IF r.exit
                 THEN /\ pc' = "idle"
                      /\ tickIdx' = 0
                      /\ manager' = StopTaskManager(manager)
                 ELSE /\ pc' = StepAfter("input")
                      /\ tickIdx' = tickIdx
                      /\ manager' = manager
        /\ UNCHANGED <<apps, launcher, framePopped, frameDue, taskRaised, completed,
                       cbCount, cbResult, cbStep, cbThread, completionLog, deliveryLog,
                       ticked, timeVars, stray, quiet, tickReq, reentered, keyboard>>

\* Handle attention requests (run, lines 338-340)
AttentionStep(env) ==
    \E d \in env.activateDirty :
        /\ pc = "attention"
        /\ IF attention_queue # <<>>
           THEN LET st == SwitchToApp(SchedState, attention_queue[1].app, d)
                IN /\ attention_queue' = PopHead(attention_queue)
                   /\ framePopped' = Append(framePopped, Request(attention_queue[1]))
                   /\ active_app' = st.active_app
                   /\ active' = st.active
                   /\ dirty' = st.dirty
                   /\ frameSwitches' = st.switches
                   /\ calls' = Log(env, SwitchCalls(SchedState, attention_queue[1].app,
                                                    showing_help))
                   /\ lastHook' = LogHooks(env, SwitchCalls(SchedState,
                                                            attention_queue[1].app,
                                                            showing_help))
           ELSE UNCHANGED <<attention_queue, framePopped, active_app, active, dirty,
                            frameSwitches, calls, lastHook>>
        /\ pc' = StepAfter("attention")
        /\ UNCHANGED <<apps, launcher, needs_keyboard, showing_help, help_scroll, running,
                       tickIdx, frameDue, taskVars, frameLog, timeVars, stray, quiet,
                       tickReq, reentered, manager, keyboard>>

\* The blocking input handler application a defines: TimerApp defines
\* handle_keyboard_input, WeatherApp handle_city_input, the base App neither.
Handler(a) ==
    CASE a % 3 = 1 -> "handle_keyboard_input"
      [] a % 3 = 2 -> "none"
      [] OTHER -> "handle_city_input"

\* The keyboard request stays set.
ClearKeyboardForgotten(kb, a) == kb

\* self.active_app.needs_keyboard = False (run, line 345)
ClearKeyboard(kb, a) == [kb EXCEPT ![a] = FALSE]

\* Handle keyboard requests (run, lines 343-354); fx is what the handler does.
KeyboardStep(env) ==
    \E fx \in env.keyboardFx :
        /\ pc = "keyboard"
        /\ IF active_app # None /\ needs_keyboard[active_app]
           THEN /\ needs_keyboard' = ClearKeyboard(needs_keyboard, active_app)
                /\ IF Handler(active_app) # "none"
                   THEN /\ FxOk(fx, attention_queue)
                        /\ FetchOk(env, active_app, fx)
                        /\ dirty' = [dirty EXCEPT ![active_app] = TRUE]
                        /\ attention_queue' = FxQueue(attention_queue, active_app, fx)
                        /\ FxTasks(active_app, fx)
                        /\ calls' = Log(env, <<Call(Handler(active_app), active_app,
                                                    showing_help, dirty)>>)
                   ELSE /\ fx = CHOOSE x \in env.keyboardFx : TRUE
                        /\ UNCHANGED <<dirty, attention_queue, taskState, taskOwner, calls>>
           ELSE /\ fx = CHOOSE x \in env.keyboardFx : TRUE
                /\ UNCHANGED <<needs_keyboard, dirty, attention_queue, taskState, taskOwner,
                               calls>>
        /\ pc' = StepAfter("keyboard")
        /\ UNCHANGED <<apps, launcher, active_app, active, showing_help, help_scroll,
                       running, tickIdx, frameSwitches, framePopped, frameDue, taskRaised,
                       completed, cbCount, cbResult, cbStep, cbThread, completionLog,
                       deliveryLog, frameLog, timeVars, ghostVars, manager, keyboard>>

\* on_update is called on every registered application.
UpdateCallsEveryApp ==
    [i \in 1..Len(apps) |-> Call("on_update", apps[i], showing_help, dirty)]

\* if self.active_app: self.active_app.on_update(delta_time) (run, lines 357-358)
UpdateCalls ==
    IF active_app # None THEN <<Call("on_update", active_app, showing_help, dirty)>>
    ELSE <<>>

\* Update active app (run, lines 357-358); up is [dirty, fx]: does on_update
\* mark the application dirty, and what else it does.
UpdateStep(env) ==
    \E up \in env.updateFx :
        /\ pc = "update"
        /\ IF active_app # None
           THEN /\ FxOk(up.fx, attention_queue)
                /\ FetchOk(env, active_app, up.fx)
                /\ dirty' = IF up.dirty THEN [dirty EXCEPT ![active_app] = TRUE] ELSE dirty
                /\ attention_queue' = FxQueue(attention_queue, active_app, up.fx)
                /\ FxTasks(active_app, up.fx)
           ELSE /\ up = CHOOSE x \in env.updateFx : TRUE
                /\ UNCHANGED <<dirty, attention_queue, taskState, taskOwner>>
        /\ calls' = Log(env, UpdateCalls)
        /\ pc' = StepAfter("update")
        /\ UNCHANGED <<apps, launcher, active_app, active, needs_keyboard, showing_help,
                       help_scroll, running, tickIdx, frameSwitches, framePopped, frameDue,
                       taskRaised, completed, cbCount, cbResult, cbStep, cbThread, completionLog,
                       deliveryLog, frameLog, timeVars, ghostVars, manager, keyboard>>

\* The application is rendered first and the overlay drawn over it.
RenderCallsOverlayOnTop ==
    IF active_app # None /\ dirty[active_app]
    THEN <<Call("clear", None, showing_help, dirty),
           Call("render", active_app, showing_help, dirty)>>
         \o (IF showing_help
             THEN <<Call("render_help_overlay", active_app, showing_help, dirty)>>
             ELSE <<>>)
         \o <<Call("show", None, showing_help, dirty)>>
    ELSE <<>>

\* if self.active_app.dirty: clear, overlay or render, show (run, lines 361-369)
RenderCalls ==
    IF active_app # None /\ dirty[active_app]
    THEN <<Call("clear", None, showing_help, dirty),
           Call(IF showing_help THEN "render_help_overlay" ELSE "render",
                active_app, showing_help, dirty),
           Call("show", None, showing_help, dirty)>>
    ELSE <<>>

\* Render if dirty (run, lines 361-369); clears: does the application's render
\* clear its dirty flag (App.render does, overrides need not).
RenderStep(env) ==
    \E clears \in env.renderClears :
        /\ pc = "render"
        /\ IF active_app # None /\ dirty[active_app] /\ ~showing_help /\ clears
           THEN dirty' = [dirty EXCEPT ![active_app] = FALSE]
           ELSE UNCHANGED dirty
        /\ calls' = Log(env, RenderCalls)
        /\ pc' = StepAfter("render")
        /\ UNCHANGED <<apps, launcher, active_app, active, needs_keyboard, attention_queue,
                       showing_help, help_scroll, running, tickIdx, frameSwitches,
                       framePopped, frameDue, taskVars, frameLog, timeVars, ghostVars, manager, keyboard>>

\* A round is run in every frame.
RoundDueAlways == TRUE

\* current_time - last_background_tick >= 1.0 (run, line 372)
RoundDue == current_time - last_background_tick >= 1

\* Background tasks (run, line 372): the round of ticks begins.  Where the
\* clock is not followed (env.timed is false) any time may have passed since
\* the last round, and the comparison may go either way.
TickDue(env) ==
    /\ pc = "tick"
    /\ tickIdx = 0
    /\ env.timed => RoundDue
    /\ tickIdx' = 1
    /\ UNCHANGED <<osVars, pc, frameSwitches, framePopped, frameDue, taskVars,
                   frameLog, timeVars, calls, ghostVars, manager, keyboard>>

\* Every registered application is ticked, the active one too.
TickTargetAny(app) == TRUE

\* if app != self.active_app (run, line 374)
TickTarget(app) == app # active_app

\* The round walks the registry from its end.
RoundAppReversed(i) == apps[Len(apps) + 1 - i]

\* for app in self.apps (run, line 373): the application of the i-th iteration
RoundApp(i) == apps[i]

\* One iteration of `for app in self.apps` (run, lines 373-375)
TickApp(env) ==
    \E fx \in env.tickFx :
        /\ pc = "tick"
        /\ tickIdx \in 1..Len(apps)
        /\ LET app == RoundApp(tickIdx)
           IN IF TickTarget(app)
              THEN /\ FxOk(fx, attention_queue)
                   /\ FetchOk(env, app, fx)
                   /\ attention_queue' = FxQueue(attention_queue, app, fx)
                   /\ FxTasks(app, fx)
                   /\ ticked' = Append(ticked, [app |-> app, active |-> active_app])
                   /\ calls' = Log(env, <<Call("on_background_tick", app, showing_help,
                                               dirty)>>)
                   /\ tickReq' = IF env.reqLog /\ fx.req # "none"
                                 THEN [app |-> app, priority |-> fx.req]
                                 ELSE NoStray
              ELSE /\ fx = NoFx
                   /\ tickReq' = NoStray
                   /\ UNCHANGED <<attention_queue, taskState, taskOwner, ticked, calls>>
        /\ tickIdx' = tickIdx + 1
        /\ UNCHANGED <<apps, launcher, active_app, active, dirty, needs_keyboard,
                       showing_help, help_scroll, running, pc, frameSwitches, framePopped,
                       frameDue, taskRaised, completed, cbCount, cbResult, cbStep,
                       cbThread, completionLog, deliveryLog, polled, timeVars, stray, quiet,
                       lastHook, reentered, manager, keyboard>>

\* The frame ends: no round was due, or the round is over and its time is
\* noted (run, lines 376-382); then `while self.running` is tested (line 265).
EndFrame(env) ==
    /\ pc = "tick"
    /\ \/ tickIdx > Len(apps)
       \/ tickIdx = 0 /\ (env.timed => ~RoundDue)
    /\ last_background_tick' = IF tickIdx > Len(apps) THEN current_time
                               ELSE last_background_tick
    /\ IF running
       THEN BeginFrame /\ manager' = manager
       ELSE /\ pc' = "idle"
            /\ tickIdx' = 0
            /\ manager' = StopTaskManager(manager)
            /\ UNCHANGED <<frameSwitches, framePopped, frameDue, frameLog, current_time,
                           calls>>
    /\ quiet' = IF quiet.on THEN [quiet EXCEPT !.frames = IF @ <= MaxQueue THEN @ + 1 ELSE @]
                 ELSE quiet
    /\ UNCHANGED <<osVars, taskVars, clock, stray, lastHook, tickReq, reentered,
                   keyboard>>

\* A second passes on the wall clock, whatever the main thread is doing.
TimePasses ==
    /\ clock < MaxTime
    /\ clock' = clock + 1
    /\ UNCHANGED <<osVars, pc, tickIdx, frameSwitches, framePopped, frameDue, taskVars,
                   frameLog, current_time, last_background_tick, calls, ghostVars, manager, keyboard>>

\* -------------------------------------------------------- the task bridge
\* A Result that reports success whatever the work did.
TaskResultAlwaysOk(t, raised) ==
    [task |-> t, success |-> TRUE, result |-> t, error |-> None]

\* The Result a finished work function is wrapped into: success with its
\* value, or failure with the error it raised (both named by the task here).
TaskResult(t, raised) ==
    [task |-> t, success |-> ~raised,
     result |-> IF raised THEN None ELSE t,
     error |-> IF raised THEN t ELSE None]

\* The worker calls the callback itself instead of queueing the result.
WorkerFinishCallsBack(t, raised) ==
    /\ taskState[t] = "running"
    /\ taskState' = [taskState EXCEPT ![t] = "delivered"]
    /\ taskRaised' = [taskRaised EXCEPT ![t] = raised]
    /\ completionLog' = Append(completionLog, t)
    /\ deliveryLog' = Append(deliveryLog, t)
    /\ cbCount' = [cbCount EXCEPT ![t] = @ + 1]
    /\ cbResult' = [cbResult EXCEPT ![t] = [success |-> ~raised,
                                            result |-> IF raised THEN None ELSE t,
                                            error |-> IF raised THEN t ELSE None]]
    /\ cbStep' = [cbStep EXCEPT ![t] = pc]
    /\ cbThread' = [cbThread EXCEPT ![t] = "worker"]
    /\ UNCHANGED <<osVars, pc, tickIdx, frameSwitches, framePopped, frameDue, taskOwner,
                   completed, frameLog, timeVars, calls, ghostVars, manager, keyboard>>

\* A worker finishes the work of task t, normally or by raising, and puts the
\* outcome into the completed-task queue.  Workers run whatever the main
\* thread is doing.
WorkerFinish(t, raised) ==
    /\ taskState[t] = "running"
    /\ taskState' = [taskState EXCEPT ![t] = "completed"]
    /\ taskRaised' = [taskRaised EXCEPT ![t] = raised]
    /\ completed' = Append(completed, TaskResult(t, raised))
    /\ completionLog' = Append(completionLog, t)
    /\ UNCHANGED <<osVars, pc, tickIdx, frameSwitches, framePopped, frameDue, taskOwner,
                   cbCount, cbResult, cbStep, cbThread, deliveryLog, frameLog, timeVars, calls, ghostVars, manager, keyboard>>

\* The newest result taken first.
TakeNewest(q) == [result |-> q[Len(q)], rest |-> SubSeq(q, 1, Len(q) - 1)]

\* The drain takes the oldest result from the completed-task queue.
TakeResult(q) == [result |-> q[1], rest |-> SubSeq(q, 2, Len(q))]

\* process_completed_tasks() takes one result from the completed-task queue
\* and calls the task's callback with it on the main thread; fx is what the
\* callback does (WeatherApp's asks for attention and may fetch again).
DeliverTask(env) ==
    \E fx \in env.callbackFx :
        /\ pc = "drain"
        /\ completed # <<>>
        /\ LET r == TakeResult(completed).result
               t == r.task
               owner == taskOwner[t]
               ts == [taskState EXCEPT ![t] = "delivered"]
           IN /\ FxOk(fx, attention_queue)
              /\ FetchOk(env, owner, fx)
              /\ completed' = TakeResult(completed).rest
              /\ cbCount' = [cbCount EXCEPT ![t] = @ + 1]
              /\ cbResult' = [cbResult EXCEPT ![t] = [success |-> r.success,
                                                      result |-> r.result,
                                                      error |-> r.error]]
              /\ cbStep' = [cbStep EXCEPT ![t] = pc]
              /\ cbThread' = [cbThread EXCEPT ![t] = "main"]
              /\ deliveryLog' = Append(deliveryLog, t)
              /\ calls' = Log(env, <<Call("callback", owner, showing_help, dirty)>>)
              /\ attention_queue' = FxQueue(attention_queue, owner, fx)
              /\ taskState' = IF fx.submit THEN [ts EXCEPT ![FreshTask] = "running"] ELSE ts
              /\ taskOwner' = IF fx.submit THEN [taskOwner EXCEPT ![FreshTask] = owner]
                              ELSE taskOwner
        /\ UNCHANGED <<apps, launcher, active_app, active, dirty, needs_keyboard,
                       showing_help, help_scroll, running, pc, tickIdx, frameSwitches,
                       framePopped, frameDue, taskRaised, completionLog, frameLog, timeVars, ghostVars, manager, keyboard>>

\* ------------------------------------------------------------ environments
Priorities == {"low", "normal", "high"}
\* A priority string request_attention is not documented to take.
OtherPriorities == {"urgent"}

\* Applications that ask for attention from on_background_tick (TimerApp,
\* WeatherApp), an operator pressing any key, and no tasks.
SchedEnv ==
    [keys |-> {"NONE", "QUIT", "HOME", "BACK", "OK"},
     eventFx |-> {[handled |-> h, keyboard |-> FALSE, dirty |-> FALSE, fx |-> NoFx] :
                    h \in BOOLEAN},
     activateDirty |-> {FALSE},
     keyboardFx |-> {NoFx},
     updateFx |-> {[dirty |-> FALSE, fx |-> NoFx]},
     renderClears |-> {FALSE},
     tickFx |-> {[req |-> p, submit |-> FALSE] : p \in Priorities \cup {"none"}},
     callbackFx |-> {NoFx},
     maxApps |-> NumApps,
     dupApps |-> FALSE,
     launchers |-> TRUE,
     timed |-> FALSE,
     pollLog |-> FALSE,
     callLog |-> FALSE,
     hookLog |-> FALSE,
     reqLog |-> FALSE,
     serial |-> FALSE]

\* request_attention(priority) called on an application that was never
\* registered (its os is None), at any point between two steps.
StrayRequest ==
    \E a \in AppIds, p \in Priorities :
        /\ NextUnregistered(a)
        /\ Len(attention_queue) < MaxQueue
        /\ attention_queue' = RequestAttention(attention_queue, a, p)
        /\ stray' = [app |-> a, priority |-> p]
        /\ UNCHANGED <<apps, launcher, active_app, active, dirty, needs_keyboard,
                       showing_help, help_scroll, running, pc, tickIdx, frameSwitches,
                       framePopped, frameDue, taskVars, frameLog, timeVars, calls, quiet, lastHook, tickReq, reentered,
                       manager, keyboard>>

\* From the start of this frame on no application asks for attention; the
\* requests pending now are counted, and so are the frames completed since.
Quieten ==
    /\ pc = "drain"
    /\ ~quiet.on
    /\ quiet' = [on |-> TRUE, pending |-> Len(attention_queue), frames |-> 0]
    /\ UNCHANGED <<osVars, pc, tickIdx, frameSwitches, framePopped, frameDue, taskVars,
                   frameLog, timeVars, calls, stray, lastHook, tickReq, reentered, manager, keyboard>>

SetUp(env) ==
    \/ RegisterApp(env)
    \/ SetLauncher(env)
    \/ SwitchToAppCall(env)
    \/ Run

Frame(env) ==
    \/ DrainDone
    \/ InputStep(env)
    \/ AttentionStep(env)
    \/ KeyboardStep(env)
    \/ UpdateStep(env)
    \/ RenderStep(env)
    \/ TickDue(env)
    \/ TickApp(env)
    \/ EndFrame(env)

Next == SetUp(SchedEnv) \/ Frame(SchedEnv)

Spec == Init /\ [][Next]_vars

\* Applications that fetch in the background like WeatherApp: a task is
\* submitted from on_event (refresh) or on_background_tick, and its callback
\* may ask for attention at 'normal' or submit the next task.
Submits == [req |-> "none", submit |-> TRUE]
TaskEnv ==
    [keys |-> {"NONE", "QUIT", "OK"},
     eventFx |-> {[handled |-> TRUE, keyboard |-> FALSE, dirty |-> FALSE, fx |-> f] :
                    f \in {NoFx, Submits}},
     activateDirty |-> {FALSE},
     keyboardFx |-> {NoFx},
     updateFx |-> {[dirty |-> FALSE, fx |-> NoFx]},
     renderClears |-> {FALSE},
     tickFx |-> {NoFx, Submits},
     callbackFx |-> {NoFx, Submits, [req |-> "normal", submit |-> FALSE]},
     maxApps |-> TaskApps,
     dupApps |-> FALSE,
     launchers |-> FALSE,
     timed |-> FALSE,
     pollLog |-> FALSE,
     callLog |-> FALSE,
     hookLog |-> FALSE,
     reqLog |-> FALSE,
     serial |-> FALSE]

NextTasks ==
    \/ RegisterApp(TaskEnv)
    \/ SwitchToAppCall(TaskEnv)
    \/ Run
    \/ Frame(TaskEnv)
    \/ DeliverTask(TaskEnv)
    \/ \E t \in TaskIds, raised \in BOOLEAN : WorkerFinish(t, raised)

SpecTasks == Init /\ [][NextTasks]_vars

\* An operator pressing every key, applications that handle or decline what
\* they are given, and background applications that ask for attention.
AllKeys == {"NONE", "QUIT", "HELP", "UP", "DOWN", "BACK", "HOME", "OK"}
HelpEnv ==
    [keys |-> AllKeys,
     eventFx |-> {[handled |-> h, keyboard |-> FALSE, dirty |-> FALSE, fx |-> NoFx] :
                    h \in BOOLEAN},
     activateDirty |-> {FALSE},
     keyboardFx |-> {NoFx},
     updateFx |-> {[dirty |-> FALSE, fx |-> NoFx]},
     renderClears |-> {FALSE},
     tickFx |-> {NoFx, [req |-> "normal", submit |-> FALSE]},
     callbackFx |-> {NoFx},
     maxApps |-> HelpApps,
     dupApps |-> FALSE,
     launchers |-> TRUE,
     timed |-> FALSE,
     pollLog |-> TRUE,
     callLog |-> FALSE,
     hookLog |-> FALSE,
     reqLog |-> FALSE,
     serial |-> FALSE]

NextHelp == SetUp(HelpEnv) \/ Frame(HelpEnv)

SpecHelp == Init /\ [][NextHelp]_vars

\* The operator and applications of HelpEnv without a launcher, so that HOME
\* and an unhandled BACK leave the loop as QUIT does; run() is called again
\* after it returned.
ReenterEnv == [HelpEnv EXCEPT !.launchers = FALSE, !.maxApps = ReenterApps]

NextReenter ==
    \/ RegisterApp(ReenterEnv)
    \/ SwitchToAppCall(ReenterEnv)
    \/ RunAgain
    \/ Frame(ReenterEnv)

SpecReenter == Init /\ [][NextReenter]_vars

\* The same with the overlay never opened and one application more.
RouteEnv ==
    [HelpEnv EXCEPT !.keys = {"NONE", "QUIT", "BACK", "HOME", "OK"},
                    !.maxApps = RouteApps]

NextRoute == SetUp(RouteEnv) \/ Frame(RouteEnv)

SpecRoute == Init /\ [][NextRoute]_vars

\* A registry that may name an application twice (set_launcher and
\* register_app of the same object), and a wall clock that is followed.
TickEnv ==
    [keys |-> {"NONE", "QUIT"},
     eventFx |-> {[handled |-> TRUE, keyboard |-> FALSE, dirty |-> FALSE, fx |-> NoFx]},
     activateDirty |-> {FALSE},
     keyboardFx |-> {NoFx},
     updateFx |-> {[dirty |-> FALSE, fx |-> NoFx]},
     renderClears |-> {FALSE},
     tickFx |-> {NoFx},
     callbackFx |-> {NoFx},
     maxApps |-> TickApps,
     dupApps |-> TRUE,
     launchers |-> TRUE,
     timed |-> TRUE,
     pollLog |-> FALSE,
     callLog |-> FALSE,
     hookLog |-> FALSE,
     reqLog |-> FALSE,
     serial |-> FALSE]

NextTicks == SetUp(TickEnv) \/ Frame(TickEnv) \/ TimePasses

SpecTicks == Init /\ [][NextTicks]_vars

\* Applications that ask for text input from on_event (WeatherApp's 'C',
\* the example TimerApp's 'K'), that mark themselves dirty or not in on_event,
\* on_activate and on_update, whose render clears the dirty flag or not, and
\* that ask for attention from on_background_tick; the operator presses a
\* key the application is given, or HELP; no launcher is set.
DrawEnv ==
    [keys |-> {"NONE", "OK", "HELP"},
     eventFx |-> {[handled |-> TRUE, keyboard |-> kb, dirty |-> d, fx |-> NoFx] :
                    kb \in BOOLEAN, d \in BOOLEAN},
     activateDirty |-> BOOLEAN,
     keyboardFx |-> {NoFx},
     updateFx |-> {[dirty |-> d, fx |-> NoFx] : d \in BOOLEAN},
     renderClears |-> BOOLEAN,
     tickFx |-> {NoFx, [req |-> "normal", submit |-> FALSE]},
     callbackFx |-> {NoFx},
     maxApps |-> DrawApps,
     dupApps |-> FALSE,
     launchers |-> FALSE,
     timed |-> FALSE,
     pollLog |-> FALSE,
     callLog |-> TRUE,
     hookLog |-> FALSE,
     reqLog |-> FALSE,
     serial |-> FALSE]

NextDraw == RegisterApp(DrawEnv) \/ SwitchToAppCall(DrawEnv) \/ Run \/ Frame(DrawEnv)

SpecDraw == Init /\ [][NextDraw]_vars

\* The operator and the applications of RouteEnv, with the calls of every
\* switch logged: switches by HOME, by a BACK the application declined, by
\* the attention step and by switch_to_app called before run().
SwitchEnv == [RouteEnv EXCEPT !.pollLog = FALSE, !.callLog = TRUE]

NextSwitch == SetUp(SwitchEnv) \/ Frame(SwitchEnv)

SpecSwitch == Init /\ [][NextSwitch]_vars

\* The environment of SwitchEnv with the last on_activate or on_deactivate of
\* every application remembered across frames and runs.
HookEnv == [SwitchEnv EXCEPT !.hookLog = TRUE]

NextHooks == SetUp(HookEnv) \/ Frame(HookEnv)

SpecHooks == Init /\ [][NextHooks]_vars

\* The applications of SchedEnv with one application object that is never
\* registered and calls request_attention all the same; no launcher.
StrayEnv == [SchedEnv EXCEPT !.keys = {"NONE", "QUIT"}, !.maxApps = StrayApps,
                             !.launchers = FALSE]

NextStray ==
    \/ RegisterApp(StrayEnv)
    \/ SwitchToAppCall(StrayEnv)
    \/ Run
    \/ Frame(StrayEnv)
    \/ StrayRequest

SpecStray == Init /\ [][NextStray]_vars

\* Applications that ask for attention from on_background_tick until they
\* stop, and an operator who presses no key that ends the loop.
DrainEnv == [SchedEnv EXCEPT !.keys = {"NONE", "OK"}, !.maxApps = DrainApps,
                             !.launchers = FALSE]

NextDrain ==
    \/ RegisterApp(DrainEnv)
    \/ SwitchToAppCall(DrainEnv)
    \/ Run
    \/ Frame(DrainEnv)
    \/ Quieten

SpecDrain == Init /\ [][NextDrain]_vars

\* Applications whose on_background_tick calls request_attention with one of
\* the three priorities or with another string; the call of the last tick is
\* remembered.  No launcher, an operator who only quits.
RankEnv == [SchedEnv EXCEPT !.keys = {"NONE", "QUIT"}, !.maxApps = RankApps,
                            !.launchers = FALSE, !.reqLog = TRUE,
                            !.tickFx = {[req |-> p, submit |-> FALSE] :
                                          p \in Priorities \cup OtherPriorities
                                                 \cup {"none"}}]

NextRank ==
    \/ RegisterApp(RankEnv)
    \/ SwitchToAppCall(RankEnv)
    \/ Run
    \/ Frame(RankEnv)

SpecRank == Init /\ [][NextRank]_vars

\* Applications that fetch in the background like WeatherApp and ask for
\* attention from a task callback, from on_event and from on_background_tick,
\* and that ask for text input from on_event.
OrderEnv ==
    [TaskEnv EXCEPT !.keys = {"NONE", "OK"},
                    !.eventFx = {[handled |-> TRUE, keyboard |-> TRUE, dirty |-> FALSE,
                                  fx |-> Submits],
                                 [handled |-> TRUE, keyboard |-> FALSE, dirty |-> FALSE,
                                  fx |-> [req |-> "normal", submit |-> FALSE]]},
                    !.tickFx = {NoFx, [req |-> "normal", submit |-> FALSE]},
                    !.callbackFx = {NoFx, [req |-> "normal", submit |-> FALSE]},
                    !.maxApps = OrderApps,
                    !.callLog = TRUE,
                    !.serial = TRUE]

NextOrder ==
    \/ RegisterApp(OrderEnv)
    \/ SwitchToAppCall(OrderEnv)
    \/ Run
    \/ Frame(OrderEnv)
    \/ DeliverTask(OrderEnv)
    \/ \E t \in TaskIds : WorkerFinish(t, FALSE)

SpecOrder == Init /\ [][NextOrder]_vars

\* ================================================================== claims
\* The frame is past its attention step.
AfterAttention == pc \in {"keyboard", "update", "render", "tick"}

\* C1: when the attention step of a frame finds requests pending, the
\* application that is active after the step is the one named by the head of
\* the queue, and no pending request has a higher priority than that head.
C1_ServesHighestPriority ==
    [][(pc = "attention" /\ attention_queue # <<>>) =>
         /\ \A i \in 1..Len(attention_queue) :
                attention_queue[i].priority <= attention_queue[1].priority
         /\ active_app' = attention_queue[1].app
         /\ framePopped' = <<Request(attention_queue[1])>>]_vars

\* C1 witness: a 'high' request was served in this frame, it caused the
\* Switch, and a request of another application at 'normal' is still pending.
C1_Witness ==
    /\ pc = "keyboard"
    /\ Len(framePopped) = 1
    /\ framePopped[1].priority = 2
    /\ framePopped[1].app = active_app
    /\ frameSwitches = 1
    /\ attention_queue # <<>>
    /\ attention_queue[1].priority = 1
    /\ attention_queue[1].app # active_app

\* C2: pending requests of equal priority stand in the queue in the order
\* they were made (stamp is the arrival rank), and requests leave the queue
\* from its head only; so equal priorities are served first come, first served.
C2_FifoAmongEqualPriority ==
    /\ [](\A i, j \in 1..Len(attention_queue) :
            (i < j /\ attention_queue[i].priority = attention_queue[j].priority)
                => attention_queue[i].stamp < attention_queue[j].stamp)
    /\ [][Len(attention_queue') < Len(attention_queue) =>
            /\ framePopped' = Append(framePopped, Request(attention_queue[1]))
            /\ \A i \in 1..Len(attention_queue') :
                   Request(attention_queue'[i]) = Request(attention_queue[i + 1])]_vars

\* C2 witness: two applications have requests of the same priority pending.
C2_Witness ==
    /\ Len(attention_queue) >= 2
    /\ attention_queue[1].priority = attention_queue[2].priority
    /\ attention_queue[1].app # attention_queue[2].app
    /\ attention_queue[1].stamp < attention_queue[2].stamp

\* C3 as stated: a frame whose attention step found a request pending holds
\* exactly one Switch.
C3_ExactlyOneSwitch ==
    (AfterAttention /\ framePopped # <<>>) => frameSwitches = 1

\* C3 amended: the attention step that finds a request pending pops exactly
\* one request and performs one Switch if the request names an application
\* other than the active one, none if it names the active one; with the Switch
\* the input step may have made, a frame holds at most two.
C3_OneServedPerFrame ==
    /\ [][(pc = "attention" /\ attention_queue # <<>>) =>
            /\ Len(framePopped') = 1
            /\ active_app' = attention_queue[1].app
            /\ frameSwitches' = frameSwitches +
                   (IF attention_queue[1].app # active_app THEN 1 ELSE 0)]_vars
    /\ [](frameSwitches <= 2)
    /\ []((AfterAttention /\ framePopped = <<>>) => frameSwitches <= 1)

\* C3 witness: a frame with a Switch to the launcher by a key and a Switch to
\* the application of the request served.
C3_Witness ==
    /\ AfterAttention
    /\ framePopped # <<>>
    /\ frameSwitches = 2
    /\ active_app = framePopped[1].app

\* C4: no frame pops more than one request, and a pop removes the head and
\* leaves every other request in the queue, in the same order.
C4_AtMostOnePopPerFrame ==
    /\ [](Len(framePopped) <= 1)
    /\ [][Len(attention_queue') < Len(attention_queue) =>
            /\ pc = "attention"
            /\ Len(attention_queue') = Len(attention_queue) - 1
            /\ \A i \in 1..Len(attention_queue') :
                   Request(attention_queue'[i]) = Request(attention_queue[i + 1])]_vars

\* C4 witness: a request was popped in this frame while another stays pending.
C4_Witness ==
    /\ AfterAttention
    /\ Len(framePopped) = 1
    /\ attention_queue # <<>>

\* C5 as stated: no pending request names the active application.
C5_QueueNeverNamesActive ==
    \A i \in 1..Len(attention_queue) : attention_queue[i].app # active_app

\* C6: an application's active flag is set exactly when it is active_app; so
\* at most one flag is set, and none when active_app is None.
C6_ActiveFlagMatchesActiveApp ==
    /\ \A a \in AppIds : active[a] <=> (a = active_app)
    /\ Cardinality({a \in AppIds : active[a]}) <= 1

\* C6 witness: a second Switch of a frame has deactivated the application the
\* first had activated.
C6_Witness ==
    /\ frameSwitches = 2
    /\ launcher # None
    /\ active_app # None
    /\ active_app # launcher
    /\ active[active_app]
    /\ ~active[launcher]

\* C7: no callback runs twice, none runs before its task's work has finished,
\* and a task whose result was queued when a frame began has had its callback
\* run once that frame is past its drain step.
C7_CallbackExactlyOnce ==
    /\ \A t \in TaskIds : cbCount[t] <= 1
    /\ \A t \in TaskIds : taskState[t] \in {"new", "running"} => cbCount[t] = 0
    /\ pc \notin {"idle", "drain"} => \A t \in frameDue : cbCount[t] = 1

\* C7 witness: a frame is past its drain step and has delivered a result that
\* was queued when it began.
C7_Witness ==
    /\ pc = "input"
    /\ \E t \in frameDue : cbCount[t] = 1 /\ taskState[t] = "delivered"

\* C8: every callback that has run ran on the main thread while the main loop
\* was in its drain step; and a worker finishing its work changes nothing but
\* the completed-task queue (and the task's own record).
C8_CallbacksOnlyInDrain ==
    /\ [](\A t \in TaskIds :
            cbCount[t] > 0 => (cbStep[t] = "drain" /\ cbThread[t] = "main"))
    /\ [][(\E t \in TaskIds : taskState[t] = "running" /\ taskState'[t] # "running") =>
            UNCHANGED <<osVars, pc, tickIdx, taskOwner, cbCount, cbResult,
                        deliveryLog>>]_vars

\* C8 witness: a result waits in the completed-task queue while the main thread is in
\* on_update, and an earlier one had its callback run in a drain step.
C8_Witness ==
    \E t, u \in TaskIds :
        /\ cbCount[t] = 1
        /\ cbStep[t] = "drain"
        /\ taskState[u] = "completed"
        /\ pc = "update"

IsPrefix(s, t) == Len(s) <= Len(t) /\ SubSeq(t, 1, Len(s)) = s

\* C9: the callbacks have run in the order in which the tasks' work finished.
C9_DeliveredInCompletionOrder == IsPrefix(deliveryLog, completionLog)

\* C9 witness: two tasks delivered, the one submitted later first (tasks are
\* numbered in the order of their submission).
C9_Witness ==
    /\ Len(deliveryLog) >= 2
    /\ deliveryLog[1] > deliveryLog[2]

\* C10: the callback of a task whose work raised has received a failed result
\* carrying that error, and delivering a result changes neither the running
\* flag nor the main loop's position: the frame goes on.
C10_FailureDelivered ==
    /\ [](\A t \in TaskIds : (cbCount[t] > 0 /\ taskRaised[t]) =>
            cbResult[t] = [success |-> FALSE, result |-> None, error |-> t])
    /\ [](\A t \in TaskIds : (cbCount[t] > 0 /\ ~taskRaised[t]) => cbResult[t].success)
    /\ [][(\E t \in TaskIds : cbCount'[t] # cbCount[t]) =>
            (running' = running /\ pc' = pc)]_vars
    /\ [](pc # "idle" => running)

\* C10 witness: a failed result has been delivered and the loop is running
\* the rest of the frame.
C10_Witness ==
    \E t \in TaskIds :
        /\ taskRaised[t]
        /\ cbCount[t] = 1
        /\ ~cbResult[t].success
        /\ running
        /\ pc = "update"

\* The frame has polled key k, and the poll met the overlay showing (help) or not.
PolledKey(k, help) == polled.key = k /\ polled.help = help

Min(a, b) == IF a < b THEN a ELSE b
Max(a, b) == IF a > b THEN a ELSE b

\* C11: a HELP or BACK key polled while the overlay shows leaves the overlay
\* closed and the scroll offset 0, whatever the offset was; and the offset is
\* 0 whenever the overlay is closed, so it opens at 0 again.
C11_HelpCloseResetsScroll ==
    /\ (PolledKey("HELP", TRUE) \/ PolledKey("BACK", TRUE)) =>
           (~showing_help /\ help_scroll = 0)
    /\ PolledKey("HELP", FALSE) => (showing_help /\ help_scroll = 0)
    /\ ~showing_help => help_scroll = 0

\* C11 witness: the overlay was closed by HELP after it had been scrolled
\* down twice or more.
C11_Witness ==
    /\ pc = "attention"
    /\ PolledKey("HELP", TRUE)
    /\ polled.scroll >= 2
    /\ ~showing_help
    /\ help_scroll = 0

\* C12 as stated: a DOWN key polled while the overlay shows sets the offset to
\* min(offset + 1, max(0, itemCount - visibleLines)), itemCount being the
\* number of lines the overlay lists for the active application.
C12_DownClampsToListedItems ==
    (pc = "attention" /\ PolledKey("DOWN", TRUE)) =>
        help_scroll = Min(polled.scroll + 1,
                          Max(0, HelpItemCount(polled.active) - VisibleLines))

\* C13: the offset is a natural number; UP at offset 0 leaves it 0; DOWN at
\* the largest offset DOWN allows leaves it there.
C13_ScrollNeverWraps ==
    /\ help_scroll \in Nat
    /\ (pc = "attention" /\ PolledKey("UP", TRUE) /\ polled.scroll = 0) =>
           help_scroll = 0
    /\ (pc = "attention" /\ PolledKey("DOWN", TRUE)
            /\ polled.scroll = MaxScroll(polled.active)) =>
           help_scroll = polled.scroll

\* C13 witness: DOWN was polled with the offset at its largest, and the
\* offset is still there.
C13_Witness ==
    /\ pc = "attention"
    /\ PolledKey("DOWN", TRUE)
    /\ polled.scroll = MaxScroll(polled.active)
    /\ polled.scroll > 0
    /\ help_scroll = polled.scroll

\* C14: while the loop runs, an on_event call of the frame went to the
\* application that was active when it was made (the launcher after HOME, else
\* the application the poll met), and the poll had not met the overlay; a key
\* other than QUIT polled while the overlay shows reaches no application,
\* switches none and does not stop the loop.
C14_EventOnlyToActiveInNormalMode ==
    /\ (pc # "idle" /\ polled.eventTo # None) =>
           /\ ~polled.help
           /\ polled.key \notin {"NONE", "QUIT", "HELP"}
           /\ polled.eventTo = IF polled.key = "HOME" THEN launcher ELSE polled.active
    /\ (polled.help /\ polled.key # "QUIT") =>
           /\ polled.eventTo = None
           /\ ~polled.handled
           /\ pc = "attention" => (active_app = polled.active /\ frameSwitches = 0)
           /\ pc # "idle"

\* C14 witness: BACK was polled while the overlay shows over an application
\* that is not the launcher: it closed the overlay and went no further.
C14_Witness ==
    /\ pc = "attention"
    /\ PolledKey("BACK", TRUE)
    /\ launcher # None
    /\ polled.active # None
    /\ polled.active # launcher
    /\ active_app = polled.active
    /\ polled.eventTo = None

\* The frame polled BACK in normal mode, the active application's on_event
\* returned false for it, and a launcher is registered.
BackDeclined ==
    /\ pc # "idle"
    /\ PolledKey("BACK", FALSE)
    /\ polled.eventTo # None
    /\ ~polled.handled
    /\ launcher # None

\* The frame is over: its tick step has no round to run or has run it.
FrameEnd == pc = "tick" /\ (tickIdx = 0 \/ tickIdx > Len(apps))

\* C15 as stated: after a BACK the active application declined, the launcher
\* is the active application at the end of the frame.
C15_LauncherAtFrameEnd == (BackDeclined /\ FrameEnd) => active_app = launcher

\* C15 amended: the launcher is the active application when the input step
\* of that frame ends; after the attention step it still is if no request
\* was pending, and otherwise the application of the request served is.
C15_LauncherAfterInputStep ==
    /\ (BackDeclined /\ pc = "attention") => active_app = launcher
    /\ (BackDeclined /\ AfterAttention) =>
           active_app = IF framePopped = <<>> THEN launcher ELSE framePopped[1].app

\* C15 witness: a frame ends with the launcher active after an application
\* that is not the launcher declined BACK.
C15_Witness ==
    /\ BackDeclined
    /\ FrameEnd
    /\ polled.active # launcher
    /\ polled.eventTo = polled.active
    /\ framePopped = <<>>
    /\ active_app = launcher
    /\ frameSwitches = 1

\* C16: when HOME is polled in normal mode and a launcher is registered, the
\* launcher is the active application when the input step ends, and the one
\* on_event call of the frame is made after the Switch, on the launcher:
\* the application the poll met is not asked, whatever it would have answered.
C16_HomeNotInterceptable ==
    (pc # "idle" /\ PolledKey("HOME", FALSE) /\ launcher # None) =>
        /\ polled.eventTo = launcher
        /\ polled.active # launcher => polled.eventTo # polled.active
        /\ pc = "attention" => active_app = launcher

\* C16 witness: HOME was polled over an application that is not the launcher
\* and whose on_event handles what it is given; the launcher is active.
C16_Witness ==
    /\ pc = "attention"
    /\ PolledKey("HOME", FALSE)
    /\ launcher # None
    /\ polled.active # None
    /\ polled.active # launcher
    /\ active_app = launcher
    /\ frameSwitches = 1

\* C17: when HOME is polled in normal mode and no launcher is registered, the
\* input step clears running and run() returns from there: no on_event call
\* is made and nothing else of the scheduler or of an application changes.
C17_HomeWithoutLauncherExits ==
    [][(pc = "input" /\ polled'.key = "HOME" /\ ~showing_help /\ launcher = None) =>
          /\ ~running'
          /\ pc' = "idle"
          /\ polled'.eventTo = None
          /\ UNCHANGED <<apps, launcher, active_app, active, dirty, needs_keyboard,
                         attention_queue, showing_help, help_scroll, ticked,
                         framePopped, frameSwitches, taskVars>>]_vars

\* C17 witness: run() has returned on HOME with an application active and no
\* launcher registered.
C17_Witness ==
    /\ pc = "idle"
    /\ ~running
    /\ PolledKey("HOME", FALSE)
    /\ launcher = None
    /\ polled.active # None
    /\ polled.eventTo = None
    /\ active_app = polled.active

\* The applications on_background_tick was called on in this frame's round,
\* in the order of the calls.
TickedApps == [i \in 1..Len(ticked) |-> ticked[i].app]

\* The round of this frame is over.
RoundOver == pc = "tick" /\ tickIdx > Len(apps)

\* C18: no on_background_tick call is made on the application that is active
\* when the call is made, and a round that is over has called exactly the
\* registered applications other than active_app (all of them if it is None).
C18_ActiveAppNeverTicked ==
    /\ \A i \in 1..Len(ticked) : ticked[i].app # ticked[i].active
    /\ RoundOver => Range(TickedApps) = Range(apps) \ {active_app}

\* C18 witness: a round is over in which two of three registered
\* applications were called and the active one was not.
C18_Witness ==
    /\ RoundOver
    /\ Len(apps) = 3
    /\ active_app \in Range(apps)
    /\ Len(ticked) = 2
    /\ active_app \notin Range(TickedApps)

\* How often a occurs in the sequence s.
Count(a, s) == Cardinality({i \in 1..Len(s) : s[i] = a})

\* C19 as stated: a round gives every registered application that is not
\* active one on_background_tick call for each second that has passed since
\* the last round (since run() was entered, for the first).
C19_OneTickPerSecond ==
    RoundOver => \A a \in Range(apps) \ {active_app} :
                     Count(a, TickedApps) = current_time - last_background_tick

\* C19 amended: a round is run in exactly the frames that begin a second or
\* more after the frame of the last round began (after run() was entered, for
\* the first), so there is at most one round for each second that passes; and
\* a round calls an application that is not active once for each time the
\* registry names it.
C19_OneRoundPerDueFrame ==
    /\ [](last_background_tick <= current_time /\ current_time <= clock)
    /\ []((pc = "tick" /\ tickIdx >= 1) => current_time - last_background_tick >= 1)
    /\ [][(pc = "tick" /\ pc' # "tick" /\ tickIdx = 0) =>
              current_time - last_background_tick < 1]_vars
    /\ [][(pc = "tick" /\ pc' # "tick" /\ tickIdx # 0) =>
              last_background_tick' = current_time]_vars
    /\ [](RoundOver => \A a \in AppIds :
              Count(a, TickedApps) = IF a = active_app THEN 0 ELSE Count(a, apps))

\* C19 witness: a round is over that was run two seconds or more after the
\* last, and it has called an application registered twice two times.
C19_Witness ==
    /\ RoundOver
    /\ current_time - last_background_tick >= 2
    /\ \E a \in AppIds : Count(a, apps) = 2 /\ Count(a, TickedApps) = 2

\* C20: while a round runs, the calls made so far are those on the
\* applications that are not active among the ones the loop has passed, in
\* the order of the registry, and every call was made with the application
\* active that is active now.
C20_TicksInRegistrationOrder ==
    (pc = "tick" /\ tickIdx >= 1) =>
        LET NotActive(a) == a # active_app
        IN /\ TickedApps = SelectSeq(SubSeq(apps, 1, tickIdx - 1), NotActive)
           /\ \A i \in 1..Len(ticked) : ticked[i].active = active_app

\* C20 witness: a round is over that has called the first and the third
\* registered application, in this order, the second being active.
C20_Witness ==
    /\ RoundOver
    /\ Len(apps) = 3
    /\ active_app = apps[2]
    /\ TickedApps = <<apps[1], apps[3]>>
    /\ apps[1] # apps[3]

\* ------------------------------------------------- global keys (C28, C30)
\* C28: no on_event call is made with a QUIT, HELP or HOME event.
C28_NoGlobalKeyToApplication ==
    polled.eventTo # None => polled.key \notin {"QUIT", "HELP", "HOME"}

\* The step polled HELP, or BACK while the overlay was showing.
HelpKeyPolled ==
    /\ pc = "input"
    /\ \/ polled'.key = "HELP"
       \/ polled'.key = "BACK" /\ polled'.help

\* The step polled UP or DOWN while the overlay was showing.
ScrollKeyPolled ==
    /\ pc = "input"
    /\ polled'.key \in {"UP", "DOWN"}
    /\ polled'.help

NewCalls ==
    IF pc = "idle" THEN (IF calls' = calls THEN <<>> ELSE calls')
    ELSE SubSeq(calls', Len(calls) + 1, Len(calls'))

\* The calls of cs whose hook is one of H, in order.
Of(cs, H) == SelectSeq(cs, LAMBDA c : c.hook \in H)

\* The hooks of the calls cs, in order.
Hooks(cs) == [i \in 1..Len(cs) |-> cs[i].hook]

HandlerHooks == {"handle_city_input", "handle_keyboard_input"}

\* A blocking input handler is called only by the keyboard step, on the active
\* application.
HandlerOnlyOnActive ==
    \A i \in 1..Len(NewCalls) :
        NewCalls[i].hook \in HandlerHooks =>
            pc = "keyboard" /\ NewCalls[i].app = active_app

\* C21 as claimed: the keyboard step that meets the active application's
\* needs_keyboard flag set calls that application's blocking input handler
\* once and leaves the flag false and the dirty flag true; no handler is
\* called on an application that is not active.
C21_HandlerInvokedOnce ==
    [][/\ (pc = "keyboard" /\ active_app # None /\ needs_keyboard[active_app]) =>
              /\ Len(Of(NewCalls, HandlerHooks)) = 1
              /\ ~needs_keyboard'[active_app]
              /\ dirty'[active_app]
       /\ HandlerOnlyOnActive]_vars

\* C21: the keyboard step that meets the active application's needs_keyboard
\* flag set leaves the flag false; if the application defines a blocking input
\* handler the step calls it once and leaves the dirty flag true, and if it
\* defines none the step calls no handler and leaves the dirty flags as they
\* were; a keyboard step that does not meet the flag set calls no handler, and
\* no handler is called on an application that is not active.
C21_HandlerInvokedIfDefined ==
    [][/\ (pc = "keyboard" /\ active_app # None /\ needs_keyboard[active_app]) =>
              /\ ~needs_keyboard'[active_app]
              /\ IF Handler(active_app) # "none"
                 THEN /\ Hooks(Of(NewCalls, HandlerHooks)) = <<Handler(active_app)>>
                      /\ dirty'[active_app]
                 ELSE /\ Of(NewCalls, HandlerHooks) = <<>>
                      /\ dirty' = dirty
       /\ (pc = "keyboard" /\ ~(active_app # None /\ needs_keyboard[active_app])) =>
              Of(NewCalls, HandlerHooks) = <<>>
       /\ HandlerOnlyOnActive]_vars

\* C21 witness: the keyboard step has called the handler of the active
\* application, which was not dirty; the flag is false and the application
\* dirty.
C21_Witness ==
    /\ pc = "update"
    /\ active_app # None
    /\ \E i \in 1..Len(calls) :
           /\ calls[i].hook \in HandlerHooks
           /\ calls[i].app = active_app
           /\ ~calls[i].dirty
    /\ ~needs_keyboard[active_app]
    /\ dirty[active_app]

\* The frame has passed its render step with the active application it ends
\* with (the tick round switches nothing).
Drawn == pc = "tick"

\* The calls of the frame made after its on_update call, the background
\* ticks left out: what the render step called.
DrawCalls ==
    LET upd == {i \in 1..Len(calls) : calls[i].hook = "on_update"}
        from == IF upd = {} THEN Len(calls) + 1 ELSE (CHOOSE i \in upd : TRUE) + 1
    IN Of(SubSeq(calls, from, Len(calls)),
          {"clear", "render", "render_help_overlay", "show"})

\* C22: in a frame that has passed its render step, either the active
\* application was clean after on_update and nothing was cleared, rendered or
\* shown, or it was dirty and the surface was cleared, rendered (the overlay
\* or the application) and shown once, in this order; no application's render
\* is called while its dirty flag is false, and the flag is false once its
\* render has been called.
C22_RenderOncePerDirtyFrame ==
    /\ Drawn =>
           IF active_app = None
           THEN Of(calls, {"render", "render_help_overlay", "show"}) = <<>>
           ELSE \/ DrawCalls = <<>> /\ ~dirty[active_app]
                \/ /\ Hooks(DrawCalls) \in {<<"clear", "render", "show">>,
                                            <<"clear", "render_help_overlay", "show">>}
                   /\ DrawCalls[2].app = active_app
                   /\ DrawCalls[2].dirty
                   /\ DrawCalls[2].hook = "render" => ~dirty[active_app]
    /\ \A i \in 1..Len(calls) : calls[i].hook = "render" => calls[i].dirty

\* C23: in a frame that has passed its update step, on_update was called once
\* if an application is active and not at all if none is, on the application
\* that is active, and before every render call of the frame.
C23_UpdateOnceBeforeRender ==
    /\ pc \in {"render", "tick"} =>
           /\ Len(Of(calls, {"on_update"})) = IF active_app # None THEN 1 ELSE 0
           /\ \A i \in 1..Len(calls) :
                  calls[i].hook = "on_update" => calls[i].app = active_app
    /\ \A i, j \in 1..Len(calls) :
           (calls[i].hook = "on_update"
                /\ calls[j].hook \in {"render", "render_help_overlay"}) => i < j

\* C23 witness: a frame has called on_update and then render on the active
\* application while another application is registered.
C23_Witness ==
    /\ Drawn
    /\ Len(apps) = 2
    /\ Hooks(Of(calls, {"on_update", "render"})) = <<"on_update", "render">>
    /\ Of(calls, {"render"})[1].app = active_app

\* C27: no call of a blocking input handler in the frame was made while the
\* help overlay was showing.
C27_NoHandlerUnderOverlay ==
    \A i \in 1..Len(calls) : calls[i].hook \in HandlerHooks => ~calls[i].help

SwitchHooks == {"on_deactivate", "on_activate", "clear"}

\* C24: a step that changes the active application calls on_deactivate on
\* the application that was active (if there was one), then on_activate on
\* the new one, then clears the screen, each once and in this order; a step
\* that leaves the active application as it is calls neither on_activate nor
\* on_deactivate.
C24_DeactivateActivateClear ==
    [][IF active_app' # active_app
       THEN LET sw == Of(NewCalls, SwitchHooks)
                old == IF active_app # None THEN <<active_app>> ELSE <<>>
            IN /\ Hooks(sw) = [i \in 1..Len(old) |-> "on_deactivate"]
                                  \o <<"on_activate", "clear">>
               /\ [i \in 1..Len(sw) - 1 |-> sw[i].app] = old \o <<active_app'>>
       ELSE Of(NewCalls, {"on_deactivate", "on_activate"}) = <<>>]_vars

\* C24 witness: the input step has switched from an application to the
\* launcher and the attention step of the same frame from the launcher to a
\* third application, each with its three calls.
C24_Witness ==
    /\ pc = "keyboard"
    /\ frameSwitches = 2
    /\ Hooks(Of(calls, SwitchHooks)) =
           <<"on_deactivate", "on_activate", "clear",
             "on_deactivate", "on_activate", "clear">>
    /\ Of(calls, SwitchHooks)[2].app = launcher
    /\ Of(calls, SwitchHooks)[4].app = launcher
    /\ Of(calls, SwitchHooks)[5].app = active_app

\* ------------------------------------------------ attention requests (C25, C26)
\* C25: a step in which an application that is not registered calls
\* request_attention (seen by the record of the last such call changing)
\* leaves the attention queue, the active application and the running flag
\* as they are; the call returns (the step is taken) whatever the priority.
C25_UnregisteredRequestIsNoOp ==
    [][stray' # stray =>
           /\ ~Registered(stray'.app)
           /\ UNCHANGED <<attention_queue, active_app, running>>]_vars

\* C25 witness: an application that is not registered has asked for
\* attention at 'high' while the loop runs with a request of a registered
\* application pending at a lower priority, which is still the head.
C25_Witness ==
    /\ pc = "input"
    /\ running
    /\ stray.app # None
    /\ ~Registered(stray.app)
    /\ stray.priority = "high"
    /\ Len(attention_queue) = 1
    /\ attention_queue[1].priority < PriorityValue("high")
    /\ Registered(attention_queue[1].app)

\* C26: once no request arrives any more, with k requests pending at the
\* start of a frame, the queue holds k - n requests at the start of the n-th
\* frame after (n <= k) and one less once that frame has passed its attention
\* step, so it is empty when k frames are completed and not before, and it
\* stays empty: every pending request is popped and served, one per frame.
C26_QueueDrainsInKFrames ==
    quiet.on =>
        Len(attention_queue) =
            Max(0, quiet.pending - quiet.frames - (IF AfterAttention THEN 1 ELSE 0))

\* C26 witness: two requests were pending when the requests stopped, two
\* frames have been completed since, both requests were served and the queue
\* is empty.
C26_Witness ==
    /\ pc = "drain"
    /\ quiet.on
    /\ quiet.pending = 2
    /\ quiet.frames = 2
    /\ attention_queue = <<>>
    /\ running

\* ------------------------------------------------ order of a frame's steps (C29)
\* The place of a step in the frame, as the claim orders them.
StepRank(step) ==
    CASE step = "drain" -> 1
      [] step = "input" -> 2
      [] step = "attention" -> 3
      [] step = "keyboard" -> 4
      [] step = "update" -> 5
      [] step = "render" -> 6
      [] step = "tick" -> 7
      [] OTHER -> 0

\* The step of the frame that makes a call of hook.
StepsOf(hook) ==
    CASE hook = "callback" -> {"drain"}
      [] hook = "on_event" -> {"input"}
      [] hook \in {"on_deactivate", "on_activate"} -> {"input", "attention"}
      [] hook = "clear" -> {"input", "attention", "render"}
      [] hook \in HandlerHooks -> {"keyboard"}
      [] hook = "on_update" -> {"update"}
      [] hook \in {"render", "render_help_overlay", "show"} -> {"render"}
      [] hook = "on_background_tick" -> {"tick"}

\* C29: while the loop is in a frame, every call the frame has made was made
\* by the step it belongs to (callbacks by the drain, on_event by the input
\* step, switches by the input or the attention step, input handlers by the
\* keyboard step, on_update, the render calls, background ticks), the calls
\* were made in the order drain, input, attention, keyboard, update, render,
\* ticks, with at most one on_event and at most one request popped; and once
\* a background tick has been called, no request is popped in what is left of
\* the frame.
C29_FrameStepOrder ==
    /\ [](pc # "idle" =>
             /\ \A i \in 1..Len(calls) : calls[i].step \in StepsOf(calls[i].hook)
             /\ \A i, j \in 1..Len(calls) :
                    i < j => StepRank(calls[i].step) <= StepRank(calls[j].step)
             /\ Len(Of(calls, {"on_event"})) <= 1
             /\ Len(framePopped) <= 1
             /\ pc \in {"drain", "input", "attention"} => framePopped = <<>>)
    /\ [][(Of(calls, {"on_background_tick"}) # <<>> /\ calls' # <<>>) =>
              framePopped' = framePopped]_vars

\* C29 witness: a task callback called in this frame with the attention queue
\* empty asked for attention, no key was polled, and the attention step of
\* the same frame has served the request; the frame went on to call on_update
\* and a background tick.
C29_Witness ==
    /\ pc = "tick"
    /\ Len(calls) >= 1
    /\ calls[1].hook = "callback"
    /\ calls[1].pending = 0
    /\ Of(calls, {"on_event"}) = <<>>
    /\ Len(framePopped) = 1
    /\ framePopped[1].app = calls[1].app
    /\ Of(calls, {"on_update"}) # <<>>
    /\ Of(calls, {"on_background_tick"}) # <<>>

\* ------------------------------------------------ overlay and exit (C31-C34)
\* What the frame has painted: its render and render_help_overlay calls.
Painted == Of(calls, {"render", "render_help_overlay"})

\* C31: a frame that has passed its render step with an application active
\* has painted nothing if the application was clean and otherwise exactly one
\* of the overlay and the application, the overlay if and only if help is
\* showing; no application's render is called while the overlay is showing,
\* and the overlay is painted only while it is showing.
C31_OverlayOrApplication ==
    /\ (Drawn /\ active_app # None) =>
           /\ Len(Painted) <= 1
           /\ Painted = <<>> => ~dirty[active_app]
           /\ Painted # <<>> =>
                  /\ Painted[1].dirty
                  /\ Painted[1].app = active_app
                  /\ Painted[1].hook =
                         IF showing_help THEN "render_help_overlay" ELSE "render"
    /\ \A i \in 1..Len(calls) :
           /\ calls[i].hook = "render" => ~calls[i].help
           /\ calls[i].hook = "render_help_overlay" => calls[i].help

\* C31 witness: the overlay is showing over a dirty application, and the
\* frame has painted the overlay and not the application.
C31_Witness ==
    /\ Drawn
    /\ active_app # None
    /\ showing_help
    /\ Hooks(DrawCalls) = <<"clear", "render_help_overlay", "show">>
    /\ DrawCalls[2].dirty

\* C32: the step that polls QUIT, over the overlay or not, clears running,
\* stops the task manager and leaves the loop at once: it pops no request,
\* switches nothing, changes no flag of an application nor the overlay, and
\* the frame it ends has popped no request and called no background tick (the
\* keyboard, update, render and tick statements are not reached: the loop is
\* left from its input statement).
C32_QuitEndsFrameAtOnce ==
    [][(pc = "input" /\ polled'.key = "QUIT") =>
           /\ ~running'
           /\ pc' = "idle"
           /\ manager' = "stopped"
           /\ framePopped' = <<>>
           /\ ticked' = <<>>
           /\ UNCHANGED <<attention_queue, active_app, active, dirty, needs_keyboard,
                          showing_help, help_scroll, frameSwitches, apps, launcher>>]_vars

\* C32 witness: QUIT was polled while the overlay was showing and a request
\* was pending; run() has returned with the task manager stopped and the
\* request still pending.
C32_Witness ==
    /\ pc = "idle"
    /\ PolledKey("QUIT", TRUE)
    /\ ~running
    /\ manager = "stopped"
    /\ attention_queue # <<>>
    /\ framePopped = <<>>
    /\ showing_help

\* C33: help_scroll is 0 whenever the help overlay is not showing.
C33_ScrollZeroWhileHidden == ~showing_help => help_scroll = 0

\* C33 witness: BACK was polled while the overlay was showing scrolled down;
\* the overlay is closed and the offset is 0.
C33_Witness ==
    /\ pc = "attention"
    /\ PolledKey("BACK", TRUE)
    /\ polled.scroll > 0
    /\ ~showing_help
    /\ help_scroll = 0

\* C34 as stated: whenever the overlay is showing, the offset is at most
\* max(0, itemCount - visibleLines) of the list of the application that is
\* active now, also after the attention step changed the active application.
C34_ScrollWithinActiveList ==
    showing_help => help_scroll <= Max(0, HelpItemCount(active_app) - VisibleLines)

\* ------------------------------------------------ switching again (C35, C36)
\* switch_to_app(a) on the application that is active already: no call is
\* made and the scheduler state, the count of switches included, is the same.
SwitchToActiveDoesNothing ==
    \A a \in AppIds, d \in BOOLEAN :
        (Registered(a) /\ a = active_app) =>
            /\ SwitchCalls(SchedState, a, showing_help) = <<>>
            /\ SwitchToApp(SchedState, a, d) = SchedState

\* C35: switch_to_app called with the application that is already active
\* calls neither on_deactivate nor on_activate, does not clear the screen and
\* leaves active_app and every active flag as they are; the attention step
\* that meets a request naming the active application removes it from the
\* queue without a switch.
C35_SwitchToActiveIsNoOp ==
    /\ []SwitchToActiveDoesNothing
    /\ [][(pc = "attention" /\ attention_queue # <<>>
              /\ attention_queue[1].app = active_app) =>
             /\ Len(attention_queue') = Len(attention_queue) - 1
             /\ \A i \in 1..Len(attention_queue') :
                    Request(attention_queue'[i]) = Request(attention_queue[i + 1])
             /\ Of(NewCalls, SwitchHooks) = <<>>
             /\ frameSwitches' = frameSwitches
             /\ UNCHANGED <<active_app, active, dirty>>]_vars

\* C35 witness: the attention step has removed a request that named the
\* active application while another request waited, without a switch and
\* without a call.
C35_Witness ==
    /\ pc = "keyboard"
    /\ framePopped # <<>>
    /\ framePopped[1].app = active_app
    /\ active[active_app]
    /\ frameSwitches = 0
    /\ Of(calls, SwitchHooks) = <<>>
    /\ attention_queue # <<>>

ActivationHooks == {"on_activate", "on_deactivate"}

\* Do the calls cs, made after the calls remembered in h, alternate on every
\* application, an application's first call being on_activate?
RECURSIVE Alternate(_, _)
Alternate(h, cs) ==
    \/ cs = <<>>
    \/ /\ cs[1].hook # h[cs[1].app]
       /\ h[cs[1].app] = "none" => cs[1].hook = "on_activate"
       /\ Alternate([h EXCEPT ![cs[1].app] = cs[1].hook], Tail(cs))

\* C36: on every application the on_activate and on_deactivate calls of the
\* scheduler alternate, the first being on_activate, and an application is
\* the active application exactly when the last of these calls on it was
\* on_activate, whichever way the switches were made.
C36_ActivationAlternates ==
    /\ [](\A a \in AppIds : (active_app = a) <=> (lastHook[a] = "on_activate"))
    /\ [][Alternate(lastHook, Of(NewCalls, ActivationHooks))]_vars

\* C36 witness: in one frame the input step switched to the launcher and the
\* attention step to a third application; two applications were deactivated
\* last and the active one was activated last.
C36_Witness ==
    /\ pc = "keyboard"
    /\ frameSwitches = 2
    /\ active_app # None
    /\ lastHook[active_app] = "on_activate"
    /\ launcher # None
    /\ lastHook[launcher] = "on_deactivate"
    /\ \E a \in AppIds \ {launcher, active_app} : lastHook[a] = "on_deactivate"

\* -------------------------------------------------- unknown priority (C37)
\* C37: a background tick that calls request_attention with a string other
\* than 'low', 'normal' and 'high' adds one request for its application to the
\* queue, ranked as 'normal': behind every 'high' request and every earlier
\* 'normal' one, ahead of every 'low' request; the other requests keep their
\* order.
C37_UnknownPriorityRanksNormal ==
    [][(pc = "tick" /\ tickIdx >= 1 /\ tickIdx' = tickIdx + 1
           /\ tickReq'.priority \in OtherPriorities) =>
          /\ Len(attention_queue') = Len(attention_queue) + 1
          /\ \E i \in 1..Len(attention_queue') :
                /\ Request(attention_queue'[i]) = [priority |-> 1, app |-> tickReq'.app]
                /\ \A j \in 1..(i - 1) :
                      /\ attention_queue'[j].priority >= 1
                      /\ Request(attention_queue'[j]) = Request(attention_queue[j])
                /\ \A j \in (i + 1)..Len(attention_queue') :
                      /\ attention_queue'[j].priority = 0
                      /\ Request(attention_queue'[j]) = Request(attention_queue[j - 1])]_vars

\* C37 witness: a tick has asked with an unknown priority while a 'low'
\* request was pending; its request is ahead of that one.
C37_Witness ==
    /\ pc = "tick"
    /\ tickReq.priority \in OtherPriorities
    /\ Len(attention_queue) = 2
    /\ attention_queue[1].app = tickReq.app
    /\ attention_queue[1].stamp = 2
    /\ attention_queue[2].priority = 0

\* -------------------------------------------------------- re-entry (C38)
\* C38: run() called after an earlier run() returned (the running flag is
\* false, the task manager stopped) sets the running flag and starts a frame,
\* and leaves the registry, the launcher, the active application, the active
\* flags, the pending attention requests and the overlay state as the earlier
\* run left them.
C38_RunReentered ==
    [][(pc = "idle" /\ pc' # "idle" /\ manager = "stopped") =>
          /\ ~running
          /\ running'
          /\ pc' = "drain"
          /\ manager' = "started"
          /\ UNCHANGED <<apps, launcher, active_app, active, attention_queue,
                         showing_help, help_scroll>>]_vars

\* C38 witness: a later run has polled UP in a frame of its own, with the
\* overlay open and scrolled, an application active and a request pending,
\* all left by the run before.
C38_Witness ==
    /\ reentered
    /\ running
    /\ pc = "attention"
    /\ PolledKey("UP", TRUE)
    /\ polled.scroll > 0
    /\ help_scroll = polled.scroll - 1
    /\ active_app # None
    /\ attention_queue # <<>>

\* ------------------------------------------------ on-screen keyboard (C39)
\* C39: whatever UP, DOWN, LEFT, RIGHT and OK events the on-screen keyboard
\* was given, OK on the shift and numbers keys included, the selected row and
\* column index an existing key of the current layout; and a keyboard whose
\* last event was BACK is cancelled and done.
C39_SelectionOnAKey ==
    keyboard # NoKeyboard =>
        /\ keyboard.selected_row \in 0..(Len(get_layout(keyboard.mode)) - 1)
        /\ keyboard.selected_col \in 0..(Len(Row(keyboard, keyboard.selected_row)) - 1)
        /\ keyboard.last = "BACK" => keyboard.cancelled /\ keyboard.done

\* C39 witness: OK on the numbers key has swapped the layout, the selection
\* was moved to the last key of the second row, which only the numbers layout
\* has, and BACK has then cancelled the keyboard.
C39_Witness ==
    /\ keyboard.mode = "numbers"
    /\ keyboard.selected_row = 1
    /\ keyboard.selected_col = 9
    /\ Row(keyboard, 1)[10] = ")"
    /\ keyboard.last = "BACK"
    /\ keyboard.cancelled
    /\ keyboard.done

====
